---- MODULE Spec2Model ----
(***************************************************************************)
(* Kanban board backend (backend/src/routes.ts): the card ordering engine, *)
(* the board-context gate and board isolation, as a state machine.         *)
(*                                                                         *)
(* The database tables are functions from the ids of the existing rows to  *)
(* records; a request handler is one action (SpecOrder, SpecCreateMove,    *)
(* SpecOneBoard, SpecIso, SpecGate), or one action per database statement  *)
(* it awaits (SpecConc), so that requests interleave where the code        *)
(* suspends.                                                               *)
(***************************************************************************)
EXTENDS Integers, Sequences, FiniteSets, TLC

VARIABLES
    cards,        \* Card table: [existing card ids -> row]
    nextCard,     \* the next fresh card id (ids are UUIDs: never reused)
    users,        \* User table: [existing user ids -> row]
    memberships,  \* BoardMembership rows, in createdAt order
    boards,       \* ids of the existing Board rows
    sessions,     \* session store: [session id -> session record]
    participants, \* CardParticipant rows: <<cardId, userId>>
    comments,     \* Comment table: [existing comment ids -> row]
    nextComment,  \* the next fresh comment id
    attachments,  \* Attachment table: [existing attachment ids -> row]
    nextAttachment, \* the next fresh attachment id
    trustedDevices, \* TrustedDevice rows: [userId, tokenHash, expiresAt]
    deviceCookies,  \* the ioterra.2fa_trust cookie of each browser (by session id)
    resetTokens,  \* PasswordResetToken rows, in creation order
    resets,       \* the POST /password/reset requests in flight, by browser
    nextToken,    \* the next fresh random token
    nextSecret,   \* the next fresh TOTP secret
    now,          \* the clock, in hours
    mailSettings, \* the MailSettings row "mail": "none", "disabled" or "enabled"
    smtpEnv,      \* env.SMTP_HOST, SMTP_USER and SMTP_PASS are set
    mailRow,      \* host, port, secure, user and from of the MailSettings row
    mailer,       \* the mailer module: its cached transporter and the send in progress
    res,          \* the last handler's request and response
    reqs,         \* the requests in flight: [request id -> its position and locals]
    history,      \* every value the Card table has had (for snapshot claims)
    pending,      \* the user-administration requests in flight: [session id -> locals]
    saving        \* the requests in flight that write req.session: [session id -> locals]

\* the tables and the session store the gate reads
access == <<users, memberships, boards, sessions>>
\* the rows that hang on cards
children == <<participants, comments, nextComment, attachments, nextAttachment>>
\* the requests in flight and the history of the Card table
inflight == <<reqs, history, pending, saving>>
\* the trusted devices, reset tokens, clock and mail configuration
creds == <<trustedDevices, deviceCookies, resetTokens, resets, nextToken, nextSecret,
           now, mailSettings, smtpEnv, mailRow, mailer>>

vars == <<cards, nextCard, access, children, creds, res, inflight>>

\* ------------------------------------------------------------------ bounds

\* the number of card ids; a request's toIndex ranges over 0..MaxIndex
MaxCards == 3
MaxIndex == MaxCards

\* the random tokens (of trusted devices and of password resets)
Tokens == {1, 2}

\* ------------------------------------------------------- program constants

ColumnIds ==
    <<"BACKLOG", "HIGH_PRIORITY", "TODO", "IN_PROGRESS", "READY_FOR_ACCEPTANCE", "DONE">>

DEFAULT_BOARD_ID == "B0"

\* a trusted device lasts DAYS days, a password-reset token RESET_HOURS hours
DAYS == 30
RESET_HOURS == 1

\* ------------------------------------------------------------ value spaces

\* the columns the requests use: two of the six
Columns == {ColumnIds[1], ColumnIds[3]}
CardIds == 1..MaxCards
BoardIds == {DEFAULT_BOARD_ID, "B1"}
UserIds == {"admin", "u1"}
SessionIds == {"s1", "s2"}
ReqIds == {"r1", "r2"}
NoBoard == "none"
NoUser == "none"
\* no user-administration request of the session is in flight: no :id, no body,
\* no row read
NoRow == [role |-> "none", isSystem |-> FALSE, defaultBoardId |-> NoBoard]
IdleAdmin == [pc |-> "idle", id |-> NoUser, role |-> <<>>, email |-> <<>>, u |-> NoRow]
\* a session without a user: none was saved, or its row is gone
Anonymous == [userId |-> NoUser, twoFactorPassed |-> FALSE, boardId |-> NoBoard]
\* no request of the session that writes req.session is in flight
IdleSave ==
    [pc |-> "idle", loaded |-> Anonymous, session |-> Anonymous, written |-> FALSE,
     op |-> "none", status |-> 0]
NoCard == 0
NoColumn == "none"
NoAssignee == "none"
Assignees == {NoAssignee, "u1@local"}
CommentIds == {1}
AttachmentIds == {1}
NoSecret == 0
NoToken == 0
Passwords == {"p0", "p1"}
\* the secrets generateTotpSecret() can still return
Secrets == {3, 4}
\* the TOTP codes of the requests: none, a wrong one, or the code of a secret
NoCode == -1
\* lastUsedAt, usedAt: null
NoTime == -1
WrongCode == 0
\* the login identifiers of the requests, trimmed and lower-cased; Emails are
\* those that include "@"
Emails == {"admin@local", "u1@local"}
Logins == {"admin", "u1"} \cup Emails
Ambiguous == "ambiguous"
\* String.prototype.toLowerCase over the strings with capitals that occur
toLowerCase(x) ==
    CASE x = "U1" -> "u1"
      [] x = "U1@local" -> "u1@local"
      [] x = "Admin" -> "admin"
      [] OTHER -> x

\* ----------------------------------------------------------------- helpers

Min(a, b) == IF a < b THEN a ELSE b
Max(a, b) == IF a > b THEN a ELSE b

clamp(n, min, max) == Max(min, Min(max, n))

\* arr.indexOf(id), 1-based; 0 when absent
IndexOf(arr, id) ==
    IF \E i \in 1..Len(arr) : arr[i] = id
    THEN CHOOSE i \in 1..Len(arr) : arr[i] = id /\ \A j \in 1..(i - 1) : arr[j] # id
    ELSE 0

\* const idx = arr.indexOf(id); if (idx >= 0) arr.splice(idx, 1)
removeFrom(arr, id) ==
    LET idx == IndexOf(arr, id)
    IN  IF idx = 0 THEN arr
        ELSE SubSeq(arr, 1, idx - 1) \o SubSeq(arr, idx + 1, Len(arr))

\* arr.splice(idx, 0, id) with a 0-based idx in 0..arr.length
spliceIn(arr, idx, id) ==
    SubSeq(arr, 1, idx) \o <<id>> \o SubSeq(arr, idx + 1, Len(arr))

\* ------------------------------------------------------------ the database

InColumn(cs, boardId, column) ==
    {id \in DOMAIN cs : cs[id].boardId = boardId /\ cs[id].column = column}

\* findMany({where: {boardId, column}, orderBy: {position: "asc"}, select: {id}}):
\* the rows in ascending position; rows of equal position come in any order
RECURSIVE ascending(_, _)
ascending(cs, S) ==
    IF S = {} THEN {<<>>}
    ELSE UNION {{<<m>> \o rest : rest \in ascending(cs, S \ {m})} :
                   m \in {x \in S : \A y \in S : cs[x].position <= cs[y].position}}

findManyInAnyBoard(cs, boardId, column) ==
    ascending(cs, {id \in DOMAIN cs : cs[id].column = column})

findManyIds(cs, boardId, column) == ascending(cs, InColumn(cs, boardId, column))

\* aggregate({where: {boardId, column}, _max: {position}}) ?? -1
maxPosition(cs, boardId, column) ==
    LET S == InColumn(cs, boardId, column)
    IN  IF S = {} THEN -1
        ELSE CHOOSE p \in {cs[id].position : id \in S} :
                 \A id \in S : cs[id].position <= p

newPositionNoIncrement(cs, boardId, column) ==
    Max(0, maxPosition(cs, boardId, column))

\* (agg._max.position ?? -1) + 1
newPosition(cs, boardId, column) == maxPosition(cs, boardId, column) + 1

\* One update of a move's transaction: the card, its position, and its column
\* when the update sets it (NoColumn otherwise)
Write(cardId, position, column) ==
    [id |-> cardId, position |-> position, column |-> column]

\* ids.map((cardId, position) => update({where: {id: cardId}, data: {position}}))
positionWrites(ids) ==
    [i \in 1..Len(ids) |-> Write(ids[i], i - 1, NoColumn)]

destinationWritesNoColumn(ids, id, toColumn) == positionWrites(ids)

\* newTo.map(...): the moved card's update also sets its column
destinationWrites(ids, id, toColumn) ==
    [i \in 1..Len(ids) |->
        Write(ids[i], i - 1, IF ids[i] = id THEN toColumn ELSE NoColumn)]

sameColumnWritesNoRemove(fromIds, id, toIndex) ==
    positionWrites(spliceIn(fromIds, clamp(toIndex, 0, Len(fromIds)), id))

\* the same-column branch: the updates of the transaction
sameColumnWrites(fromIds, id, toIndex) ==
    LET ids == removeFrom(fromIds, id)
        idx == clamp(toIndex, 0, Len(ids))
    IN  positionWrites(spliceIn(ids, idx, id))

\* the cross-column branch: the updates of the transaction, source first
crossColumnWrites(fromIds, toIds, id, toColumn, toIndex) ==
    LET newFrom == removeFrom(fromIds, id)
        newTo == removeFrom(toIds, id)
        idx == clamp(toIndex, 0, Len(newTo))
    IN  positionWrites(newFrom)
            \o destinationWrites(spliceIn(newTo, idx, id), id, toColumn)

\* prisma.card.update of one row (the row exists)
applyWrite(cs, w) ==
    [cs EXCEPT ![w.id] =
        IF w.column = NoColumn
        THEN [@ EXCEPT !.position = w.position]
        ELSE [@ EXCEPT !.position = w.position, !.column = w.column]]

RECURSIVE applyWrites(_, _)
applyWrites(cs, ws) ==
    IF ws = <<>> THEN cs
    ELSE applyWrites(applyWrite(cs, Head(ws)), Tail(ws))

\* prisma.$transaction([...updates]): an update of a missing row throws and the
\* transaction rolls back
txSucceeds(cs, ws) == \A i \in 1..Len(ws) : ws[i].id \in DOMAIN cs

RECURSIVE withoutRollback(_, _)
withoutRollback(cs, ws) ==
    IF ws = <<>> \/ Head(ws).id \notin DOMAIN cs THEN cs
    ELSE withoutRollback(applyWrite(cs, Head(ws)), Tail(ws))

transaction(cs, ws) == IF txSucceeds(cs, ws) THEN applyWrites(cs, ws) ELSE cs

\* ON DELETE CASCADE from Card: the participant rows of deleted cards go
cascadeParticipants(gone) == {p \in participants : p[1] \notin gone}

\* ON DELETE CASCADE from Card: the comment or attachment rows of deleted cards go
cascadeRows(rows, gone) ==
    [i \in {j \in DOMAIN rows : rows[j].cardId \notin gone} |-> rows[i]]

\* ------------------------------------------------------------ credentials

\* hashPassword(password): the stored hash of a password
hashPassword(password) == <<"hash", password>>

\* verifyPassword(password, passwordHash)
verifyPassword(password, passwordHash) == passwordHash = hashPassword(password)

\* sha256Hex(input)
sha256Hex(input) == <<"sha256", input>>

acceptsAnyCode(token, secret) == TRUE

\* verifyTotp({token, secret}): a code is the secret it is currently valid for
verifyTotp(token, secret) == secret # NoSecret /\ token = secret

\* the TOTP secret of the users that start enrolled
secretOf(u) == IF u = "admin" THEN 1 ELSE 2

\* the User row of a user who has changed the first password and enrolled TOTP
enrolledUser(u) ==
    [role |-> IF u = "admin" THEN "ADMIN" ELSE "MEMBER",
     isSystem |-> u = "admin",
     email |-> IF u = "admin" THEN "admin@local" ELSE "u1@local",
     name |-> IF u = "admin" THEN "administrator" ELSE "u1",
     passwordHash |-> hashPassword("p0"),
     mustChangePassword |-> FALSE,
     totpEnabled |-> TRUE,
     totpSecret |-> secretOf(u),
     totpTempSecret |-> NoSecret,
     defaultBoardId |-> DEFAULT_BOARD_ID]

\* no trusted device, no reset token, no mail configuration; secrets 1 and 2
\* are the enrolled users'
\* no POST /password/reset of the browser is in flight
IdleReset == [pc |-> "idle", rec |-> 0, token |-> NoToken, passwordHash |-> <<>>]

noCredentials ==
    /\ trustedDevices = {}
    /\ deviceCookies = [s \in SessionIds |-> NoToken]
    /\ resetTokens = <<>>
    /\ resets = [s \in SessionIds |-> IdleReset]
    /\ nextToken = 1
    /\ nextSecret = 3
    /\ now = 0

\* ------------------------------------------------------ the middleware chain

Membership(boardId, userId) == [boardId |-> boardId, userId |-> userId]

hasAnyMembership(boardId, userId) ==
    \E i \in 1..Len(memberships) : memberships[i].userId = userId

hasMembership(boardId, userId) ==
    \E i \in 1..Len(memberships) :
        memberships[i].boardId = boardId /\ memberships[i].userId = userId

\* requireLogin: the session's user id resolves to a stored user
requireLogin(s) ==
    IF sessions[s].userId \in DOMAIN users THEN 0 ELSE 401

skipTwoFactor(s) == 0

\* requireTwoFactor
requireTwoFactor(s) ==
    IF ~users[sessions[s].userId].totpEnabled THEN 403
    ELSE IF ~sessions[s].twoFactorPassed THEN 401
    ELSE 0

requireBoardSelected(s) ==
    IF sessions[s].boardId = NoBoard THEN 400 ELSE 0

\* requireBoardContext
requireBoardContext(s) ==
    IF sessions[s].boardId = NoBoard THEN 400
    ELSE IF /\ users[sessions[s].userId].role # "ADMIN"
            /\ ~hasMembership(sessions[s].boardId, sessions[s].userId)
         THEN 403
    ELSE 0

\* router.use(requireLogin(), requireTwoFactor()), in front of every route:
\* 0 when the request passes, else the status of the first failure
\* router.use(requireBoardContext()) follows it for the routes registered after it
signedIn(s) ==
    IF requireLogin(s) # 0 THEN requireLogin(s) ELSE requireTwoFactor(s)

gate(s) ==
    IF signedIn(s) # 0 THEN signedIn(s) ELSE requireBoardContext(s)

\* ---------------------------------------------------------------- responses

\* What the last request was and what came of it: the handler, the session and
\* the :id of the request's path (a card; a comment or an attachment for the
\* routes under /comments and /attachments), the response status, the notification dispatched
\* (notifyCardParticipants' event), the number of updates in the transaction and
\* the ids of the cards in the response body
Returning(op, s, card, status, notify, writes, returned) ==
    [op |-> op, session |-> s, card |-> card, status |-> status,
     notify |-> notify, writes |-> writes, returned |-> returned, error |-> "",
     given |-> <<>>]

\* a response whose body holds no card
Response(op, s, card, status, notify, writes) ==
    Returning(op, s, card, status, notify, writes, {})

NoResponse == Response("none", "none", NoCard, 0, "none", 0)

\* the mail configuration tuple of a MailSettings row that is not there (null)
NoMailRow == [host |-> "", port |-> 0, secure |-> TRUE, user |-> "", from |-> ""]

\* cachedTransporter = null
NoTransporter == [host |-> "", port |-> 0, secure |-> TRUE, user |-> ""]

\* the mailer module after the start of the server: cachedTransporter, cachedKey
\* and cachedFrom are null; fresh is now - cachedAt < 30_000; pc, used and
\* outcome are the send in progress, the transporter and sender the last
\* sendMail was handed and how the last sendEmail ended; notified is the
\* response whose notification has run
IdleMailer ==
    [cachedTransporter |-> NoTransporter, cachedKey |-> <<>>, cachedFrom |-> "",
     fresh |-> FALSE, pc |-> "idle", used |-> NoMailRow, outcome |-> "none",
     notified |-> NoResponse]

\* no MailSettings row, no SMTP_* environment, and a mailer that has sent nothing
noMail ==
    /\ mailSettings = "none" /\ smtpEnv = FALSE
    /\ mailRow = NoMailRow /\ mailer = IdleMailer

findCardById(cs, id, boardId) == id \in DOMAIN cs

\* the response of a route of the auth router: its status and, for an
\* HttpError, its message
Answer(op, s, status, error) ==
    [Response(op, s, NoCard, status, "none", 0) EXCEPT !.error = error]

\* the response of a password-reset route, with what the request gave:
\* <<login>>, <<token>>, or <<login, code>>
Redeemed(op, s, status, error, given) ==
    [Answer(op, s, status, error) EXCEPT !.given = given]

\* the card exists on the session's board: findFirst({where: {id, boardId}})
findCard(cs, id, boardId) == id \in DOMAIN cs /\ cs[id].boardId = boardId

\* ----------------------------------------------------------------- handlers

\* POST /cards
CreateCard(s, column) ==
    /\ nextCard <= MaxCards
    /\ IF gate(s) # 0
       THEN /\ res' = Response("create", s, NoCard, gate(s), "none", 0)
            /\ UNCHANGED <<cards, nextCard>>
       ELSE IF sessions[s].boardId \notin boards
       THEN \* the insert violates Card.boardId's foreign key
            /\ res' = Response("create", s, NoCard, 500, "none", 0)
            /\ UNCHANGED <<cards, nextCard>>
       ELSE LET boardId == sessions[s].boardId
                position == newPosition(cards, boardId, column)
            IN  /\ cards' = cards @@ (nextCard :>
                       [boardId |-> boardId, column |-> column,
                        position |-> position, authorId |-> sessions[s].userId,
                        assignee |-> NoAssignee])
                /\ nextCard' = nextCard + 1
                /\ res' = Returning("create", s, nextCard, 201, "none", 0, {nextCard})
    /\ UNCHANGED <<creds, access, children, inflight>>

\* POST /cards/:id/move
MoveCard(s, id, toColumn, toIndex) ==
    /\ IF gate(s) # 0
       THEN /\ res' = Response("move", s, id, gate(s), "none", 0)
            /\ UNCHANGED cards
       ELSE IF ~findCard(cards, id, sessions[s].boardId)
       THEN /\ res' = Response("move", s, id, 404, "none", 0)
            /\ UNCHANGED cards
       ELSE LET boardId == sessions[s].boardId
                fromColumn == cards[id].column
            IN  \E fromIds \in findManyIds(cards, boardId, fromColumn) :
                    IF fromColumn = toColumn
                    THEN LET ws == sameColumnWrites(fromIds, id, toIndex)
                         IN  /\ cards' = transaction(cards, ws)
                             /\ res' = Response("move", s, id,
                                    IF txSucceeds(cards, ws) THEN 200 ELSE 500,
                                    "none", Len(ws))
                    ELSE \E toIds \in findManyIds(cards, boardId, toColumn) :
                         LET ws == crossColumnWrites(fromIds, toIds, id, toColumn, toIndex)
                         IN  /\ cards' = transaction(cards, ws)
                             /\ res' = IF txSucceeds(cards, ws)
                                       THEN Response("move", s, id, 200, "moved", Len(ws))
                                       ELSE Response("move", s, id, 500, "none", Len(ws))
    /\ UNCHANGED <<creds, nextCard, access, children, inflight>>

\* DELETE /cards/:id
DeleteCard(s, id) ==
    /\ IF gate(s) # 0
       THEN /\ res' = Response("delete", s, id, gate(s), "none", 0)
            /\ UNCHANGED <<cards, children>>
       ELSE IF ~findCard(cards, id, sessions[s].boardId)
       THEN /\ res' = Response("delete", s, id, 404, "none", 0)
            /\ UNCHANGED <<cards, children>>
       ELSE /\ cards' = [i \in DOMAIN cards \ {id} |-> cards[i]]
            /\ participants' = cascadeParticipants({id})
            /\ comments' = cascadeRows(comments, {id})
            /\ attachments' = cascadeRows(attachments, {id})
            /\ UNCHANGED <<nextComment, nextAttachment>>
            /\ res' = Response("delete", s, id, 200, "none", 0)
    /\ UNCHANGED <<creds, nextCard, access, inflight>>

\* the cards GET /board lists: one findMany per column of COLUMNS_IN_ORDER
boardCards(cs, boardId) ==
    UNION {InColumn(cs, boardId, ColumnIds[i]) : i \in 1..Len(ColumnIds)}

\* GET /board
GetBoard(s) ==
    /\ res' = IF gate(s) # 0 THEN Response("board", s, NoCard, gate(s), "none", 0)
              ELSE Returning("board", s, NoCard, 200, "none", 0,
                             boardCards(cards, sessions[s].boardId))
    /\ UNCHANGED <<creds, cards, nextCard, access, children, inflight>>

\* GET /users
GetUsers(s) ==
    /\ res' = IF gate(s) # 0 THEN Response("users", s, NoCard, gate(s), "none", 0)
              ELSE Response("users", s, NoCard, 200, "none", 0)
    /\ UNCHANGED <<creds, cards, nextCard, access, children, inflight>>

\* GET /cards/:id
GetCard(s, id) ==
    /\ res' = IF gate(s) # 0 THEN Response("card", s, id, gate(s), "none", 0)
              ELSE IF ~findCard(cards, id, sessions[s].boardId)
              THEN Response("card", s, id, 404, "none", 0)
              ELSE Returning("card", s, id, 200, "none", 0, {id})
    /\ UNCHANGED <<creds, cards, nextCard, access, children, inflight>>

anyoneManages(s, id) == TRUE

\* actor.role === Role.ADMIN || (!!card.authorId && card.authorId === actor.id)
canManage(s, id) ==
    \/ users[sessions[s].userId].role = "ADMIN"
    \/ cards[id].authorId = sessions[s].userId

\* PATCH /cards/:id; data.assignee is <<>> when undefined, else <<value>>
UpdateCard(s, id, data) ==
    /\ IF gate(s) # 0
       THEN /\ res' = Response("update", s, id, gate(s), "none", 0)
            /\ UNCHANGED cards
       ELSE IF ~findCard(cards, id, sessions[s].boardId)
       THEN /\ res' = Response("update", s, id, 404, "none", 0)
            /\ UNCHANGED cards
       ELSE IF data.assignee # <<>> /\ ~canManage(s, id)
       THEN /\ res' = Response("update", s, id, 403, "none", 0)
            /\ UNCHANGED cards
       ELSE /\ cards' = [cards EXCEPT ![id].assignee =
                   IF data.assignee # <<>> THEN data.assignee[1] ELSE @]
            /\ res' = Returning("update", s, id, 200, "updated", 0, {id})
    /\ UNCHANGED <<creds, nextCard, access, children, inflight>>

\* POST /cards/:id/participants, by userId
AddParticipant(s, id, userId) ==
    /\ IF gate(s) # 0
       THEN /\ res' = Response("addParticipant", s, id, gate(s), "none", 0)
            /\ UNCHANGED participants
       ELSE IF ~findCard(cards, id, sessions[s].boardId)
       THEN /\ res' = Response("addParticipant", s, id, 404, "none", 0)
            /\ UNCHANGED participants
       ELSE IF ~canManage(s, id)
       THEN /\ res' = Response("addParticipant", s, id, 403, "none", 0)
            /\ UNCHANGED participants
       ELSE IF userId \notin DOMAIN users
       THEN /\ res' = Response("addParticipant", s, id, 404, "none", 0)
            /\ UNCHANGED participants
       ELSE /\ participants' = participants \cup {<<id, userId>>}
            /\ res' = Response("addParticipant", s, id, 201, "none", 0)
    /\ UNCHANGED <<creds, cards, nextCard, access, comments, nextComment,
                   attachments, nextAttachment, inflight>>

\* DELETE /cards/:id/participants/:userId
RemoveParticipant(s, id, userId) ==
    /\ IF gate(s) # 0
       THEN /\ res' = Response("removeParticipant", s, id, gate(s), "none", 0)
            /\ UNCHANGED participants
       ELSE IF ~findCard(cards, id, sessions[s].boardId)
       THEN /\ res' = Response("removeParticipant", s, id, 404, "none", 0)
            /\ UNCHANGED participants
       ELSE IF ~canManage(s, id)
       THEN /\ res' = Response("removeParticipant", s, id, 403, "none", 0)
            /\ UNCHANGED participants
       ELSE /\ participants' = participants \ {<<id, userId>>}
            /\ res' = Response("removeParticipant", s, id, 200, "none", 0)
    /\ UNCHANGED <<creds, cards, nextCard, access, comments, nextComment,
                   attachments, nextAttachment, inflight>>

\* POST /cards/:id/comments
CreateComment(s, id, body) ==
    /\ nextComment \in CommentIds
    /\ IF gate(s) # 0
       THEN /\ res' = Response("comment", s, id, gate(s), "none", 0)
            /\ UNCHANGED <<comments, nextComment>>
       ELSE IF ~findCard(cards, id, sessions[s].boardId)
       THEN /\ res' = Response("comment", s, id, 404, "none", 0)
            /\ UNCHANGED <<comments, nextComment>>
       ELSE /\ comments' = comments @@ (nextComment :>
                   [cardId |-> id, authorId |-> sessions[s].userId, body |-> body])
            /\ nextComment' = nextComment + 1
            /\ res' = Response("comment", s, id, 201, "updated", 0)
    /\ UNCHANGED <<creds, cards, nextCard, access, participants,
                   attachments, nextAttachment, inflight>>

\* the 404 and 403 of PATCH and DELETE /comments/:id; 0 when the request may act
commentDenied(s, id) ==
    IF id \notin DOMAIN comments THEN 404
    ELSE IF cards[comments[id].cardId].boardId # sessions[s].boardId THEN 404
    ELSE IF /\ users[sessions[s].userId].role # "ADMIN"
            /\ comments[id].authorId # sessions[s].userId
         THEN 403
    ELSE 0

\* PATCH /comments/:id
UpdateComment(s, id, body) ==
    /\ IF gate(s) # 0
       THEN /\ res' = Response("editComment", s, id, gate(s), "none", 0)
            /\ UNCHANGED comments
       ELSE IF commentDenied(s, id) # 0
       THEN /\ res' = Response("editComment", s, id, commentDenied(s, id), "none", 0)
            /\ UNCHANGED comments
       ELSE /\ comments' = [comments EXCEPT ![id].body = body]
            /\ res' = Response("editComment", s, id, 200, "updated", 0)
    /\ UNCHANGED <<creds, cards, nextCard, access, participants, nextComment,
                   attachments, nextAttachment, inflight>>

\* DELETE /comments/:id
DeleteComment(s, id) ==
    /\ IF gate(s) # 0
       THEN /\ res' = Response("deleteComment", s, id, gate(s), "none", 0)
            /\ UNCHANGED comments
       ELSE IF commentDenied(s, id) # 0
       THEN /\ res' = Response("deleteComment", s, id, commentDenied(s, id), "none", 0)
            /\ UNCHANGED comments
       ELSE /\ comments' = [i \in DOMAIN comments \ {id} |-> comments[i]]
            /\ res' = Response("deleteComment", s, id, 200, "updated", 0)
    /\ UNCHANGED <<creds, cards, nextCard, access, participants, nextComment,
                   attachments, nextAttachment, inflight>>

\* POST /cards/:id/attachments, with a file (the database row; the upload
\* directory is not part of the state)
CreateAttachment(s, id) ==
    /\ nextAttachment \in AttachmentIds
    /\ IF gate(s) # 0
       THEN /\ res' = Response("attach", s, id, gate(s), "none", 0)
            /\ UNCHANGED <<attachments, nextAttachment>>
       ELSE IF ~findCard(cards, id, sessions[s].boardId)
       THEN /\ res' = Response("attach", s, id, 404, "none", 0)
            /\ UNCHANGED <<attachments, nextAttachment>>
       ELSE /\ attachments' = attachments @@ (nextAttachment :> [cardId |-> id])
            /\ nextAttachment' = nextAttachment + 1
            /\ res' = Response("attach", s, id, 201, "updated", 0)
    /\ UNCHANGED <<creds, cards, nextCard, access, participants, comments,
                   nextComment, inflight>>

\* the 404 of GET /attachments/:id/download and DELETE /attachments/:id
attachmentDenied(s, id) ==
    IF id \notin DOMAIN attachments THEN 404
    ELSE IF cards[attachments[id].cardId].boardId # sessions[s].boardId THEN 404
    ELSE 0

\* GET /attachments/:id/download
DownloadAttachment(s, id) ==
    /\ res' = IF gate(s) # 0 THEN Response("download", s, id, gate(s), "none", 0)
              ELSE IF attachmentDenied(s, id) # 0
              THEN Response("download", s, id, attachmentDenied(s, id), "none", 0)
              ELSE Returning("download", s, id, 200, "none", 0,
                             {attachments[id].cardId})
    /\ UNCHANGED <<creds, cards, nextCard, access, children, inflight>>

\* DELETE /attachments/:id
DeleteAttachment(s, id) ==
    /\ IF gate(s) # 0
       THEN /\ res' = Response("detach", s, id, gate(s), "none", 0)
            /\ UNCHANGED attachments
       ELSE IF attachmentDenied(s, id) # 0
       THEN /\ res' = Response("detach", s, id, attachmentDenied(s, id), "none", 0)
            /\ UNCHANGED attachments
       ELSE /\ attachments' = [i \in DOMAIN attachments \ {id} |-> attachments[i]]
            /\ res' = Response("detach", s, id, 200, "updated", 0)
    /\ UNCHANGED <<creds, cards, nextCard, access, participants, comments,
                   nextComment, nextAttachment, inflight>>

\* ------------------------------------------------------ the board handlers

\* POST /boards/select
SelectBoard(s, boardId) ==
    /\ IF signedIn(s) # 0
       THEN /\ res' = Response("select", s, NoCard, signedIn(s), "none", 0)
            /\ UNCHANGED sessions
       ELSE IF /\ users[sessions[s].userId].role # "ADMIN"
               /\ ~hasMembership(boardId, sessions[s].userId)
       THEN /\ res' = Response("select", s, NoCard, 403, "none", 0)
            /\ UNCHANGED sessions
       ELSE /\ sessions' = [sessions EXCEPT ![s].boardId = boardId]
            /\ res' = Response("select", s, NoCard, 200, "none", 0)
    /\ UNCHANGED <<creds, cards, nextCard, users, memberships, boards, children, inflight>>

firstBoard(ms, userId, id) ==
    LET rows == SelectSeq(ms, LAMBDA m : m.userId = userId)
    IN  IF rows = <<>> THEN NoBoard ELSE rows[1].boardId

\* findFirst({where: {userId, boardId: {not: id}}, orderBy: {createdAt: "asc"}})
\* ?.boardId ?? null, over the membership rows ms
fallbackBoard(ms, userId, id) ==
    LET rows == SelectSeq(ms, LAMBDA m : m.userId = userId /\ m.boardId # id)
    IN  IF rows = <<>> THEN NoBoard ELSE rows[1].boardId

\* the users whose default board is id get their earliest other board, or none
repointDefaults(ms, affected, id) ==
    [u \in DOMAIN users |->
        IF u \in affected /\ users[u].defaultBoardId = id
        THEN [users[u] EXCEPT !.defaultBoardId = fallbackBoard(ms, u, id)]
        ELSE users[u]]

noPermanentBoard(id) == FALSE

\* id === DEFAULT_BOARD_ID
isDefaultBoard(id) == id = DEFAULT_BOARD_ID

\* PATCH /boards/:id with memberIds (a sequence of existing users' ids, each once)
UpdateBoard(s, id, memberIds) ==
    /\ IF signedIn(s) # 0
       THEN /\ res' = Response("updateBoard", s, NoCard, signedIn(s), "none", 0)
            /\ UNCHANGED <<users, memberships>>
       ELSE IF users[sessions[s].userId].role # "ADMIN"
       THEN /\ res' = Response("updateBoard", s, NoCard, 403, "none", 0)
            /\ UNCHANGED <<users, memberships>>
       ELSE IF id \notin boards
       THEN \* tx.board.update finds no row
            /\ res' = Response("updateBoard", s, NoCard, 500, "none", 0)
            /\ UNCHANGED <<users, memberships>>
       ELSE LET existing == {memberships[i].userId :
                                i \in {j \in 1..Len(memberships) :
                                          memberships[j].boardId = id}}
                nextSet == {memberIds[i] : i \in 1..Len(memberIds)}
                toRemove == existing \ nextSet
                toAdd == SelectSeq(memberIds, LAMBDA uid : uid \notin existing)
                kept == SelectSeq(memberships,
                            LAMBDA m : ~(m.boardId = id /\ m.userId \in toRemove))
            IN  /\ users' = repointDefaults(kept, toRemove, id)
                /\ memberships' =
                       kept \o [i \in 1..Len(toAdd) |-> Membership(id, toAdd[i])]
                /\ res' = Response("updateBoard", s, NoCard, 200, "none", 0)
    /\ UNCHANGED <<creds, cards, nextCard, boards, sessions, children, inflight>>

\* DELETE /boards/:id; the memberships and cards of the board, and the rows that
\* hang on its cards, go with it (ON DELETE CASCADE)
DeleteBoard(s, id) ==
    /\ IF signedIn(s) # 0
       THEN /\ res' = Response("deleteBoard", s, NoCard, signedIn(s), "none", 0)
            /\ UNCHANGED <<cards, access, children>>
       ELSE IF users[sessions[s].userId].role # "ADMIN"
       THEN /\ res' = Response("deleteBoard", s, NoCard, 403, "none", 0)
            /\ UNCHANGED <<cards, access, children>>
       ELSE IF isDefaultBoard(id)
       THEN /\ res' = Response("deleteBoard", s, NoCard, 400, "none", 0)
            /\ UNCHANGED <<cards, access, children>>
       ELSE IF id \notin boards
       THEN \* tx.board.delete finds no row and the transaction rolls back
            /\ res' = Response("deleteBoard", s, NoCard, 500, "none", 0)
            /\ UNCHANGED <<cards, access, children>>
       ELSE LET gone == {c \in DOMAIN cards : cards[c].boardId = id}
            IN  /\ users' = repointDefaults(memberships, DOMAIN users, id)
                /\ boards' = boards \ {id}
                /\ memberships' = SelectSeq(memberships, LAMBDA m : m.boardId # id)
                /\ cards' = [c \in DOMAIN cards \ gone |-> cards[c]]
                /\ participants' = cascadeParticipants(gone)
                /\ comments' = cascadeRows(comments, gone)
                /\ attachments' = cascadeRows(attachments, gone)
                /\ UNCHANGED <<nextComment, nextAttachment>>
                /\ sessions' = IF sessions[s].boardId = id
                               THEN [sessions EXCEPT ![s].boardId = NoBoard]
                               ELSE sessions
                /\ res' = Response("deleteBoard", s, NoCard, 200, "none", 0)
    /\ UNCHANGED <<creds, nextCard, inflight>>

\* ------------------------------------------------- the auth router: login

\* the users whose email, or name, equals the identifier (mode: "insensitive")
byEmail(email) ==
    {u \in DOMAIN users : toLowerCase(users[u].email) = toLowerCase(email)}
byName(name) ==
    {u \in DOMAIN users : toLowerCase(users[u].name) = toLowerCase(name)}

findFirstNameMatch(login) ==
    IF toLowerCase(login) = "admin"
    THEN IF byEmail("admin@local") = {} THEN NoUser
         ELSE CHOOSE u \in byEmail("admin@local") : TRUE
    ELSE IF login \in Emails
    THEN IF byEmail(login) = {} THEN NoUser ELSE CHOOSE u \in byEmail(login) : TRUE
    ELSE IF byName(login) # {} THEN CHOOSE u \in byName(login) : TRUE
    ELSE NoUser

\* POST /login: the user of the identifier: the "admin" alias, an email, or a
\* name that one user bears; Ambiguous for a name of several users
findLoginUser(login) ==
    IF toLowerCase(login) = "admin"
    THEN IF byEmail("admin@local") = {} THEN NoUser
         ELSE CHOOSE u \in byEmail("admin@local") : TRUE
    ELSE IF login \in Emails
    THEN IF byEmail(login) = {} THEN NoUser ELSE CHOOSE u \in byEmail(login) : TRUE
    ELSE IF Cardinality(byName(login)) = 1 THEN CHOOSE u \in byName(login) : TRUE
    ELSE IF Cardinality(byName(login)) > 1 THEN Ambiguous
    ELSE NoUser

verifyAnyUsersDeviceToken(userId, token) ==
    \E d \in trustedDevices : d.tokenHash = sha256Hex(token) /\ d.expiresAt > now

verifyExpiredDeviceToken(userId, token) ==
    \E d \in trustedDevices : d.userId = userId /\ d.tokenHash = sha256Hex(token)

\* verifyTrustedDeviceToken({userId, token}): a row of the user for the token
\* that has not expired
verifyTrustedDeviceToken(userId, token) ==
    \E d \in trustedDevices :
        d.userId = userId /\ d.tokenHash = sha256Hex(token) /\ d.expiresAt > now

\* issueTrustedDevice: the TrustedDevice table with a row for a fresh token
issuedDevices(userId) ==
    trustedDevices \cup
        {[userId |-> userId, tokenHash |-> sha256Hex(nextToken),
          expiresAt |-> now + DAYS * 24, lastUsedAt |-> NoTime]}

\* verifyTrustedDeviceToken: updateMany({where: {userId, tokenHash, expiresAt:
\* {gt: now}}, data: {lastUsedAt: now}})
touchedDevices(userId, token) ==
    {IF d.userId = userId /\ d.tokenHash = sha256Hex(token) /\ d.expiresAt > now
     THEN [d EXCEPT !.lastUsedAt = now] ELSE d : d \in trustedDevices}

\* findFirst({where: {userId}, orderBy: {createdAt: "asc"}})?.boardId
earliestBoard(userId) ==
    LET rows == SelectSeq(memberships, LAMBDA m : m.userId = userId)
    IN  IF rows = <<>> THEN NoBoard ELSE rows[1].boardId

defaultBoardOnly(userId) ==
    [userId |-> userId,
     twoFactorPassed |-> users[userId].totpEnabled,
     boardId |-> users[userId].defaultBoardId]

\* the session a successful login saves
loggedIn(userId) ==
    [userId |-> userId,
     twoFactorPassed |-> users[userId].totpEnabled,
     boardId |-> IF users[userId].defaultBoardId # NoBoard
                 THEN users[userId].defaultBoardId
                 ELSE earliestBoard(userId)]

\* the 2FA step of POST /login for user u: 0 when it passes, else the status
loginSecondFactor(s, u, totp) ==
    IF ~users[u].totpEnabled THEN 0
    ELSE IF users[u].totpSecret = NoSecret THEN 500
    ELSE IF totp # NoCode
         THEN IF verifyTotp(totp, users[u].totpSecret) THEN 0 ELSE 401
    ELSE IF /\ deviceCookies[s] # NoToken
            /\ verifyTrustedDeviceToken(u, deviceCookies[s])
         THEN 0
    ELSE 401

\* POST /login from the browser of session s
Login(s, login, password, totp, rememberDevice) ==
    LET u == findLoginUser(login)
    IN  /\ IF u = Ambiguous
           THEN /\ res' = Answer("login", s, 400, "Ambiguous login, use email")
                /\ UNCHANGED <<sessions, trustedDevices, deviceCookies, nextToken>>
           ELSE IF u = NoUser \/ ~verifyPassword(password, users[u].passwordHash)
           THEN /\ res' = Answer("login", s, 401, "Invalid credentials")
                /\ UNCHANGED <<sessions, trustedDevices, deviceCookies, nextToken>>
           ELSE IF loginSecondFactor(s, u, totp) # 0
           THEN /\ res' = Answer("login", s, loginSecondFactor(s, u, totp),
                              IF users[u].totpSecret = NoSecret THEN "2FA misconfigured"
                              ELSE IF totp # NoCode THEN "Invalid 2FA code"
                              ELSE "Two-factor required")
                /\ UNCHANGED <<sessions, trustedDevices, deviceCookies, nextToken>>
           ELSE /\ IF users[u].totpEnabled /\ totp # NoCode /\ rememberDevice
                   THEN /\ nextToken \in Tokens
                        /\ trustedDevices' = issuedDevices(u)
                        /\ deviceCookies' = [deviceCookies EXCEPT ![s] = nextToken]
                        /\ nextToken' = nextToken + 1
                   ELSE IF users[u].totpEnabled /\ totp = NoCode
                   THEN /\ trustedDevices' = touchedDevices(u, deviceCookies[s])
                        /\ UNCHANGED <<deviceCookies, nextToken>>
                   ELSE UNCHANGED <<trustedDevices, deviceCookies, nextToken>>
                /\ sessions' = [sessions EXCEPT ![s] = loggedIn(u)]
                /\ res' = Answer("login", s, 200, "")
        /\ UNCHANGED <<cards, nextCard, users, memberships, boards, children,
                       resetTokens, resets, nextSecret, now, mailSettings, smtpEnv, mailRow, mailer, inflight>>


\* POST /logout
Logout(s) ==
    /\ sessions' = [sessions EXCEPT ![s] = Anonymous]
    /\ res' = Answer("logout", s, 200, "")
    /\ UNCHANGED <<cards, nextCard, users, memberships, boards, children, creds, inflight>>

\* the clock advances
Advance(hours, horizon) ==
    /\ now + hours <= horizon
    /\ now' = now + hours
    /\ res' = NoResponse
    /\ UNCHANGED <<cards, nextCard, access, children, trustedDevices, deviceCookies,
                   resetTokens, resets, nextToken, nextSecret, mailSettings, smtpEnv, mailRow, mailer, inflight>>

\* --------------------------------- the auth router: password and two-factor

\* POST /password (requireLogin)
ChangePassword(s, newPassword) ==
    /\ IF requireLogin(s) # 0
       THEN /\ res' = Answer("password", s, 401, "Unauthorized")
            /\ UNCHANGED users
       ELSE /\ users' = [users EXCEPT ![sessions[s].userId] =
                            [@ EXCEPT !.passwordHash = hashPassword(newPassword),
                                      !.mustChangePassword = FALSE]]
            /\ res' = Answer("password", s, 200, "")
    /\ UNCHANGED <<cards, nextCard, memberships, boards, sessions, children, creds, inflight>>

\* POST /2fa/setup (requireLogin): generateTotpSecret() is a fresh secret
Setup2FA(s) ==
    /\ IF requireLogin(s) # 0
       THEN /\ res' = Answer("setup", s, 401, "Unauthorized")
            /\ UNCHANGED <<users, nextSecret>>
       ELSE /\ nextSecret \in Secrets
            /\ users' = [users EXCEPT ![sessions[s].userId].totpTempSecret = nextSecret]
            /\ nextSecret' = nextSecret + 1
            /\ res' = Answer("setup", s, 200, "")
    /\ UNCHANGED <<cards, nextCard, memberships, boards, sessions, children,
                   trustedDevices, deviceCookies, resetTokens, resets, nextToken, now,
                   mailSettings, smtpEnv, mailRow, mailer, inflight>>

\* POST /2fa/enable (requireLogin)
Enable2FA(s, code) ==
    /\ IF requireLogin(s) # 0
       THEN /\ res' = Answer("enable", s, 401, "Unauthorized")
            /\ UNCHANGED <<users, sessions>>
       ELSE IF users[sessions[s].userId].totpTempSecret = NoSecret
       THEN /\ res' = Answer("enable", s, 400, "No 2FA setup in progress")
            /\ UNCHANGED <<users, sessions>>
       ELSE IF ~verifyTotp(code, users[sessions[s].userId].totpTempSecret)
       THEN /\ res' = Answer("enable", s, 400, "Invalid code")
            /\ UNCHANGED <<users, sessions>>
       ELSE /\ users' = [users EXCEPT ![sessions[s].userId] =
                            [@ EXCEPT !.totpEnabled = TRUE,
                                      !.totpSecret = users[sessions[s].userId].totpTempSecret,
                                      !.totpTempSecret = NoSecret]]
            /\ sessions' = [sessions EXCEPT ![s].twoFactorPassed = TRUE]
            /\ res' = Answer("enable", s, 200, "")
    /\ UNCHANGED <<cards, nextCard, memberships, boards, children, creds, inflight>>

\* POST /2fa/verify (requireLogin)
Verify2FA(s, code, rememberDevice) ==
    /\ IF requireLogin(s) # 0
       THEN /\ res' = Answer("verify", s, 401, "Unauthorized")
            /\ UNCHANGED <<sessions, trustedDevices, deviceCookies, nextToken>>
       ELSE IF \/ ~users[sessions[s].userId].totpEnabled
               \/ users[sessions[s].userId].totpSecret = NoSecret
       THEN /\ res' = Answer("verify", s, 400, "2FA not enabled")
            /\ UNCHANGED <<sessions, trustedDevices, deviceCookies, nextToken>>
       ELSE IF ~verifyTotp(code, users[sessions[s].userId].totpSecret)
       THEN /\ res' = Answer("verify", s, 400, "Invalid code")
            /\ UNCHANGED <<sessions, trustedDevices, deviceCookies, nextToken>>
       ELSE /\ sessions' = [sessions EXCEPT ![s].twoFactorPassed = TRUE]
            /\ IF rememberDevice
               THEN /\ nextToken \in Tokens
                    /\ trustedDevices' = issuedDevices(sessions[s].userId)
                    /\ deviceCookies' = [deviceCookies EXCEPT ![s] = nextToken]
                    /\ nextToken' = nextToken + 1
               ELSE UNCHANGED <<trustedDevices, deviceCookies, nextToken>>
            /\ res' = Answer("verify", s, 200, "")
    /\ UNCHANGED <<cards, nextCard, users, memberships, boards, children,
                   resetTokens, resets, nextSecret, now, mailSettings, smtpEnv, mailRow, mailer, inflight>>

\* ------------------------------------------- the auth router: password reset

\* POST /password/forgot, /password/reset-by-totp: the user of the identifier:
\* an email, or a name that exactly one user bears
findByIdentifier(login) ==
    IF login \in Emails
    THEN IF byEmail(login) = {} THEN NoUser ELSE CHOOSE u \in byEmail(login) : TRUE
    ELSE IF Cardinality(byName(login)) = 1 THEN CHOOSE u \in byName(login) : TRUE
    ELSE NoUser

\* the mailer's getMailConfig() # null: a MailSettings row is authoritative, the
\* environment counts only without one
getMailConfig == IF mailSettings # "none" THEN mailSettings = "enabled" ELSE smtpEnv

\* POST /password/forgot: const mailConfigured
mailConfigured == IF mailSettings = "enabled" THEN TRUE ELSE smtpEnv

\* POST /password/forgot; sendEmail never throws and writes no table
ForgotPassword(s, login) ==
    /\ IF findByIdentifier(login) = NoUser \/ ~mailConfigured
       THEN UNCHANGED <<resetTokens, nextToken>>
       ELSE /\ nextToken \in Tokens
            /\ resetTokens' = Append(resetTokens,
                                  [userId |-> findByIdentifier(login),
                                   tokenHash |-> sha256Hex(nextToken),
                                   expiresAt |-> now + RESET_HOURS,
                                   usedAt |-> NoTime])
            /\ nextToken' = nextToken + 1
    /\ res' = Redeemed("forgot", s, 200, "", <<login>>)
    /\ UNCHANGED <<cards, nextCard, access, children, trustedDevices, deviceCookies,
                   resets, nextSecret, now, mailSettings, smtpEnv, mailRow, mailer, inflight>>

findUsedResetToken(token) ==
    LET found == {i \in 1..Len(resetTokens) :
                     /\ resetTokens[i].tokenHash = sha256Hex(token)
                     /\ resetTokens[i].expiresAt > now}
    IN  IF found = {} THEN 0 ELSE CHOOSE i \in found : \A j \in found : i <= j

\* passwordResetToken.findFirst({where: {tokenHash, expiresAt: {gt: now},
\* usedAt: null}}): the index of the row, 0 for none
findResetToken(token) ==
    LET found == {i \in 1..Len(resetTokens) :
                     /\ resetTokens[i].tokenHash = sha256Hex(token)
                     /\ resetTokens[i].expiresAt > now
                     /\ resetTokens[i].usedAt = NoTime}
    IN  IF found = {} THEN 0 ELSE CHOOSE i \in found : \A j \in found : i <= j

keepSessions(userId) == sessions

\* DELETE FROM "session" WHERE (sess->'user'->>'userId') = userId
deleteSessions(userId) ==
    [s \in SessionIds |-> IF sessions[s].userId = userId THEN Anonymous ELSE sessions[s]]

\* the $transaction of POST /password/reset for the row rec, read before it
redeem(rec, passwordHash) ==
    /\ users' = [users EXCEPT ![resetTokens[rec].userId] =
                    [@ EXCEPT !.passwordHash = passwordHash, !.mustChangePassword = FALSE]]
    /\ resetTokens' = [resetTokens EXCEPT ![rec].usedAt = now]
    /\ sessions' = deleteSessions(resetTokens[rec].userId)

\* POST /password/reset, without another request between its statements
ResetPassword(s, token, newPassword) ==
    /\ IF findResetToken(token) = 0
       THEN /\ res' = Redeemed("reset", s, 400, "Invalid or expired token", <<token>>)
            /\ UNCHANGED <<users, resetTokens, sessions>>
       ELSE /\ redeem(findResetToken(token), hashPassword(newPassword))
            /\ res' = Redeemed("reset", s, 200, "", <<token>>)
    /\ UNCHANGED <<cards, nextCard, memberships, boards, children, trustedDevices,
                   deviceCookies, resets, nextToken, nextSecret, now, mailSettings,
                   smtpEnv, mailRow, mailer, inflight>>

\* POST /password/reset-by-totp
ResetPasswordByTotp(s, login, code, newPassword) ==
    LET u == findByIdentifier(login)
    IN  /\ IF u = NoUser \/ ~users[u].totpEnabled \/ users[u].totpSecret = NoSecret
           THEN /\ res' = Redeemed("resetByTotp", s, 400, "Password reset not available",
                                <<login, code>>)
                /\ UNCHANGED <<users, sessions, trustedDevices>>
           ELSE IF ~verifyTotp(code, users[u].totpSecret)
           THEN /\ res' = Redeemed("resetByTotp", s, 400, "Invalid code", <<login, code>>)
                /\ UNCHANGED <<users, sessions, trustedDevices>>
           ELSE /\ users' = [users EXCEPT ![u] =
                                [@ EXCEPT !.passwordHash = hashPassword(newPassword),
                                          !.mustChangePassword = FALSE]]
                /\ sessions' = deleteSessions(u)
                /\ trustedDevices' = {d \in trustedDevices : d.userId # u}
                /\ res' = Redeemed("resetByTotp", s, 200, "", <<login, code>>)
        /\ UNCHANGED <<cards, nextCard, memberships, boards, children, deviceCookies,
                       resetTokens, resets, nextToken, nextSecret, now, mailSettings,
                       smtpEnv, mailRow, mailer, inflight>>

\* PUT /mail-settings with a complete SMTP configuration (admin only)
\* the mail configurations a PUT /mail-settings carries: one base tuple, and
\* the base with another host, another port, or a sender address
BaseTuple == [host |-> "smtp1", port |-> 465, secure |-> TRUE, user |-> "mail", from |-> ""]
MailTuples ==
    {BaseTuple, [BaseTuple EXCEPT !.host = "smtp2"], [BaseTuple EXCEPT !.port = 587],
     [BaseTuple EXCEPT !.from = "noreply"]}

\* PUT /mail-settings with enabled, host, port, secure, user and from in the
\* body (and a password)
PutMailSettingsBody(s, enabled, data) ==
    /\ IF signedIn(s) # 0
       THEN /\ res' = Answer("mailSettings", s, signedIn(s), "")
            /\ UNCHANGED <<mailSettings, mailRow>>
       ELSE IF users[sessions[s].userId].role # "ADMIN"
       THEN /\ res' = Answer("mailSettings", s, 403, "Forbidden")
            /\ UNCHANGED <<mailSettings, mailRow>>
       ELSE /\ mailSettings' = IF enabled THEN "enabled" ELSE "disabled"
            /\ mailRow' = data
            /\ res' = Answer("mailSettings", s, 200, "")
    /\ UNCHANGED <<cards, nextCard, access, children, trustedDevices, deviceCookies,
                   resetTokens, resets, nextToken, nextSecret, now, smtpEnv, mailer,
                   inflight>>

PutMailSettings(s, enabled) == PutMailSettingsBody(s, enabled, BaseTuple)

\* ------------------------------------------------------------- the mailer

\* getMailConfig's fallback to env.SMTP_*: from is SMTP_FROM ?? SMTP_USER
EnvTuple == [host |-> "smtp.env", port |-> 587, secure |-> FALSE, user |-> "env", from |-> "env"]

\* getMailConfig(): the tuple of the effective configuration, NoMailRow for
\* null; from is rec.from ?? rec.user
mailConfig ==
    IF mailSettings = "enabled"
    THEN [mailRow EXCEPT !.from = IF @ = "" THEN mailRow.user ELSE @]
    ELSE IF mailSettings = "none" /\ smtpEnv THEN EnvTuple
    ELSE NoMailRow

\* JSON.stringify({host, port, secure, user, from})
keyOf(cfg) == <<cfg.host, cfg.port, cfg.secure, cfg.user, cfg.from>>

\* nodemailer.createTransport({host, port, secure, auth: {user, pass}, ...})
createTransport(cfg) ==
    [host |-> cfg.host, port |-> cfg.port, secure |-> cfg.secure, user |-> cfg.user]

\* getTransporter's first return: a cached transporter whose cachedAt is less
\* than 30 s old is handed out before any configuration is read
cacheHit ==
    /\ mailer.cachedTransporter # NoTransporter
    /\ mailer.cachedKey # <<>>
    /\ mailer.cachedFrom # ""
    /\ mailer.fresh

\* getTransporter() returns null: no cache hit and no effective configuration
noTransporter == ~cacheHit /\ mailConfig = NoMailRow

\* getTransporter(): the module's cache afterwards
getTransporter ==
    IF cacheHit \/ mailConfig = NoMailRow THEN mailer
    ELSE IF /\ mailer.cachedTransporter # NoTransporter
            /\ mailer.cachedKey = keyOf(mailConfig)
            /\ mailer.cachedFrom # ""
         THEN [mailer EXCEPT !.fresh = TRUE]
    ELSE [mailer EXCEPT !.cachedTransporter = createTransport(mailConfig),
                        !.cachedKey = keyOf(mailConfig),
                        !.cachedFrom = mailConfig.from,
                        !.fresh = TRUE]

\* what sendMail is handed: the transporter and {from: t.from}
handed(m) ==
    [host |-> m.cachedTransporter.host, port |-> m.cachedTransporter.port,
     secure |-> m.cachedTransporter.secure, user |-> m.cachedTransporter.user,
     from |-> m.cachedFrom]

\* the cards a dispatched notification can name: the card of the request, or
\* the card of the comment or attachment the request named
notifiedCards ==
    IF res.op \in {"update", "move", "comment", "attach"} THEN {res.card} \cap DOMAIN cards
    ELSE DOMAIN cards

\* card.participants without the actor
recipients(card, actor) == {p[2] : p \in {q \in participants : q[1] = card /\ q[2] # actor}}

\* notifyCardParticipants after the handler has answered (the handler calls it
\* with void and .catch(() => undefined)): findUnique of the card, the
\* recipients, and sendEmail up to its await of sendMail
NotifyCardParticipants ==
    /\ mailer.pc = "idle"
    /\ res.notify # "none"
    /\ mailer.notified # res
    /\ res.session \in SessionIds
    /\ IF notifiedCards = {}
       THEN mailer' = [mailer EXCEPT !.notified = res]
       ELSE \E card \in notifiedCards :
                mailer' =
                    IF recipients(card, sessions[res.session].userId) = {}
                    THEN [mailer EXCEPT !.notified = res]
                    ELSE IF noTransporter
                    THEN [mailer EXCEPT !.notified = res, !.outcome = "disabled"]
                    ELSE [getTransporter EXCEPT !.notified = res, !.pc = "sending",
                                                !.used = handed(getTransporter)]
    /\ UNCHANGED <<cards, nextCard, access, children, trustedDevices, deviceCookies,
                   resetTokens, resets, nextToken, nextSecret, now, mailSettings, smtpEnv,
                   mailRow, res, inflight>>

answeredAfterSend(ok) == IF ok THEN res ELSE [res EXCEPT !.status = 500]

\* the response of the request that dispatched the notification, once sendMail
\* has settled: the handler answered before, and sendEmail catches the rejection
answered(ok) == res

\* sendMail resolves (ok) or rejects; a send that hangs never takes this step
SendMailSettles(ok) ==
    /\ mailer.pc = "sending"
    /\ mailer' = [mailer EXCEPT !.pc = "idle", !.outcome = IF ok THEN "sent" ELSE "failed"]
    /\ res' = answered(ok)
    /\ UNCHANGED <<cards, nextCard, access, children, trustedDevices, deviceCookies,
                   resetTokens, resets, nextToken, nextSecret, now, mailSettings, smtpEnv,
                   mailRow, inflight>>

\* 30 s pass since cachedAt
CacheExpires ==
    /\ mailer.fresh
    /\ mailer' = [mailer EXCEPT !.fresh = FALSE]
    /\ UNCHANGED <<cards, nextCard, access, children, trustedDevices, deviceCookies,
                   resetTokens, resets, nextToken, nextSecret, now, mailSettings, smtpEnv,
                   mailRow, res, inflight>>

\* POST /password/reset, statement by statement: the findFirst
ResetFind(s, token, newPassword) ==
    /\ resets[s].pc = "idle"
    /\ IF findResetToken(token) = 0
       THEN /\ res' = Redeemed("reset", s, 400, "Invalid or expired token", <<token>>)
            /\ UNCHANGED resets
       ELSE /\ resets' = [resets EXCEPT ![s] =
                             [pc |-> "found", rec |-> findResetToken(token), token |-> token,
                              passwordHash |-> hashPassword(newPassword)]]
            /\ res' = NoResponse
    /\ UNCHANGED <<cards, nextCard, access, children, trustedDevices, deviceCookies,
                   resetTokens, nextToken, nextSecret, now, mailSettings, smtpEnv, mailRow, mailer,
                   inflight>>

\* POST /password/reset, statement by statement: the $transaction and the answer
ResetCommit(s) ==
    /\ resets[s].pc = "found"
    /\ redeem(resets[s].rec, resets[s].passwordHash)
    /\ resets' = [resets EXCEPT ![s] = IdleReset]
    /\ res' = Redeemed("reset", s, 200, "", <<resets[s].token>>)
    /\ UNCHANGED <<cards, nextCard, memberships, boards, children, trustedDevices,
                   deviceCookies, nextToken, nextSecret, now, mailSettings, smtpEnv, mailRow, mailer,
                   inflight>>

\* ------------------------------------------- handlers, statement by statement

\* A request before it starts. Its locals: the board and user of its session
\* ((req as any).boardId, user.id), the card, column and index of the request, the
\* move's fromColumn, fromIds and toIds, the create's position, GET /board's
\* columns read so far; its response status and notification; and whether
\* another request committed between its reads and its own write (overlap)
IdleRequest ==
    [kind |-> "none", pc |-> "idle", boardId |-> NoBoard, userId |-> NoUser,
     card |-> NoCard,
     column |-> NoColumn, toIndex |-> 0, fromColumn |-> NoColumn,
     fromIds |-> <<>>, toIds |-> <<>>, position |-> 0, view |-> <<>>,
     status |-> 0, notify |-> "none", overlap |-> FALSE]

\* the requests whose reads are done and whose write is still to come
WritePending(r) == reqs[r].pc \in {"insert", "tx", "delete"}

\* reqs after request r took a step to record `next` and wrote to the Card
\* table: r and every request with a pending write now overlap
afterWrite(r, next) ==
    LET hit == \E q \in ReqIds \ {r} : WritePending(q)
    IN  [q \in ReqIds |->
            IF q = r THEN [next EXCEPT !.overlap = @ \/ hit]
            ELSE IF WritePending(q) THEN [reqs[q] EXCEPT !.overlap = TRUE]
            ELSE reqs[q]]

Finished(req, status, notify) ==
    [req EXCEPT !.pc = "done", !.status = status, !.notify = notify]

\* POST /cards: the middleware chain and prisma.card.aggregate
CreateAggregate(r, s, column) ==
    /\ reqs[r].pc = "idle"
    /\ nextCard <= MaxCards
    /\ LET req == [IdleRequest EXCEPT !.kind = "create", !.column = column,
                                      !.boardId = sessions[s].boardId,
                                      !.userId = sessions[s].userId]
       IN  reqs' = [reqs EXCEPT ![r] =
               IF gate(s) # 0 THEN Finished(req, gate(s), "none")
               ELSE [req EXCEPT !.pc = "insert",
                         !.position = newPosition(cards, sessions[s].boardId, column)]]
    /\ UNCHANGED <<creds, cards, nextCard, access, children, res, history, pending, saving>>

\* POST /cards: prisma.card.create
CreateInsert(r) ==
    /\ reqs[r].pc = "insert"
    /\ nextCard <= MaxCards
    /\ cards' = cards @@ (nextCard :>
           [boardId |-> reqs[r].boardId, column |-> reqs[r].column,
            position |-> reqs[r].position, authorId |-> reqs[r].userId,
            assignee |-> NoAssignee])
    /\ nextCard' = nextCard + 1
    /\ reqs' = afterWrite(r, Finished([reqs[r] EXCEPT !.card = nextCard], 201, "none"))
    /\ history' = history \cup {cards'}
    /\ UNCHANGED <<creds, access, children, res, pending, saving>>

\* POST /cards/:id/move: the middleware chain and prisma.card.findFirst
MoveFindFirst(r, s, id, toColumn, toIndex) ==
    /\ reqs[r].pc = "idle"
    /\ LET req == [IdleRequest EXCEPT !.kind = "move", !.card = id, !.userId = sessions[s].userId,
                                      !.column = toColumn, !.toIndex = toIndex,
                                      !.boardId = sessions[s].boardId]
       IN  reqs' = [reqs EXCEPT ![r] =
               IF gate(s) # 0 THEN Finished(req, gate(s), "none")
               ELSE IF ~findCard(cards, id, sessions[s].boardId)
               THEN Finished(req, 404, "none")
               ELSE [req EXCEPT !.pc = "fromCards", !.fromColumn = cards[id].column]]
    /\ UNCHANGED <<creds, cards, nextCard, access, children, res, history, pending, saving>>

\* POST /cards/:id/move: findMany of the source column; toCards = fromCards when
\* the move stays in its column
MoveFromCards(r) ==
    /\ reqs[r].pc = "fromCards"
    /\ \E fromIds \in findManyIds(cards, reqs[r].boardId, reqs[r].fromColumn) :
           reqs' = [reqs EXCEPT ![r] =
               IF reqs[r].fromColumn = reqs[r].column
               THEN [@ EXCEPT !.pc = "tx", !.fromIds = fromIds, !.toIds = fromIds]
               ELSE [@ EXCEPT !.pc = "toCards", !.fromIds = fromIds]]
    /\ UNCHANGED <<creds, cards, nextCard, access, children, res, history, pending, saving>>

\* POST /cards/:id/move: findMany of the destination column
MoveToCards(r) ==
    /\ reqs[r].pc = "toCards"
    /\ \E toIds \in findManyIds(cards, reqs[r].boardId, reqs[r].column) :
           reqs' = [reqs EXCEPT ![r] = [@ EXCEPT !.pc = "tx", !.toIds = toIds]]
    /\ UNCHANGED <<creds, cards, nextCard, access, children, res, history, pending, saving>>

\* the updates of request r's transaction
moveWrites(req) ==
    IF req.fromColumn = req.column
    THEN sameColumnWrites(req.fromIds, req.card, req.toIndex)
    ELSE crossColumnWrites(req.fromIds, req.toIds, req.card, req.column, req.toIndex)

\* POST /cards/:id/move: prisma.$transaction, then the notification of a
\* cross-column move and the response
MoveTransaction(r) ==
    /\ reqs[r].pc = "tx"
    /\ LET ws == moveWrites(reqs[r])
           ok == txSucceeds(cards, ws)
       IN  /\ cards' = transaction(cards, ws)
           /\ reqs' =
                 IF ok
                 THEN afterWrite(r, Finished(reqs[r], 200,
                          IF reqs[r].fromColumn = reqs[r].column THEN "none" ELSE "moved"))
                 ELSE [reqs EXCEPT ![r] = Finished(@, 500, "none")]
           /\ history' = history \cup {cards'}
    /\ UNCHANGED <<creds, nextCard, access, children, res, pending, saving>>

\* DELETE /cards/:id: the middleware chain and prisma.card.findFirst
DeleteFindFirst(r, s, id) ==
    /\ reqs[r].pc = "idle"
    /\ LET req == [IdleRequest EXCEPT !.kind = "delete", !.card = id, !.userId = sessions[s].userId,
                                      !.boardId = sessions[s].boardId]
       IN  reqs' = [reqs EXCEPT ![r] =
               IF gate(s) # 0 THEN Finished(req, gate(s), "none")
               ELSE IF ~findCard(cards, id, sessions[s].boardId)
               THEN Finished(req, 404, "none")
               ELSE [req EXCEPT !.pc = "delete"]]
    /\ UNCHANGED <<creds, cards, nextCard, access, children, res, history, pending, saving>>

\* DELETE /cards/:id: prisma.card.delete, which throws when the row is gone
DeleteRow(r) ==
    /\ reqs[r].pc = "delete"
    /\ IF reqs[r].card \in DOMAIN cards
       THEN /\ cards' = [i \in DOMAIN cards \ {reqs[r].card} |-> cards[i]]
            /\ participants' = cascadeParticipants({reqs[r].card})
            /\ comments' = cascadeRows(comments, {reqs[r].card})
            /\ attachments' = cascadeRows(attachments, {reqs[r].card})
            /\ reqs' = afterWrite(r, Finished(reqs[r], 200, "none"))
       ELSE /\ UNCHANGED <<cards, participants, comments, attachments>>
            /\ reqs' = [reqs EXCEPT ![r] = Finished(@, 500, "none")]
    /\ history' = history \cup {cards'}
    /\ UNCHANGED <<creds, nextCard, access, nextComment, nextAttachment, res, pending, saving>>

\* the rows of one column as GET /board returns them: id and position, ascending
columnRows(cs, ids) == [i \in 1..Len(ids) |-> [id |-> ids[i], position |-> cs[ids[i]].position]]

\* GET /board: the middleware chain; Promise.all then issues one findMany a column
BoardStart(r, s) ==
    /\ reqs[r].pc = "idle"
    /\ LET req == [IdleRequest EXCEPT !.kind = "board", !.boardId = sessions[s].boardId,
                                      !.userId = sessions[s].userId]
       IN  reqs' = [reqs EXCEPT ![r] =
               IF gate(s) # 0 THEN Finished(req, gate(s), "none")
               ELSE [req EXCEPT !.pc = "columns"]]
    /\ UNCHANGED <<creds, cards, nextCard, access, children, res, history, pending, saving>>

\* GET /board: the findMany of one column completes; the response is sent when
\* every column has been read
BoardFindMany(r, column) ==
    /\ reqs[r].pc = "columns"
    /\ column \notin DOMAIN reqs[r].view
    /\ \E ids \in findManyIds(cards, reqs[r].boardId, column) :
           LET view == reqs[r].view @@ (column :> columnRows(cards, ids))
           IN  reqs' = [reqs EXCEPT ![r] =
                   IF DOMAIN view = Columns
                   THEN Finished([@ EXCEPT !.view = view], 200, "none")
                   ELSE [@ EXCEPT !.view = view]]
    /\ UNCHANGED <<creds, cards, nextCard, access, children, res, history, pending, saving>>

\* ------------------------------------------------------------ specifications

\* Two logged-in, two-factor-satisfied sessions, one on each board, and no card;
\* the card ids from firstCard on are still unused
InitFrom(firstCard) ==
    /\ cards = <<>>
    /\ nextCard = firstCard
    /\ users = [u \in UserIds |-> enrolledUser(u)]
    /\ memberships = <<Membership(DEFAULT_BOARD_ID, "admin"),
                       Membership(DEFAULT_BOARD_ID, "u1"),
                       Membership("B1", "u1")>>
    /\ boards = BoardIds
    /\ sessions = [s \in SessionIds |->
                      [userId |-> IF s = "s1" THEN "admin" ELSE "u1",
                       twoFactorPassed |-> TRUE,
                       boardId |-> IF s = "s1" THEN DEFAULT_BOARD_ID ELSE "B1"]]
    /\ participants = {}
    /\ comments = <<>>
    /\ nextComment = 1
    /\ attachments = <<>>
    /\ nextAttachment = 1
    /\ noCredentials
    /\ noMail
    /\ res = NoResponse
    /\ reqs = [r \in ReqIds |-> IdleRequest]
    /\ history = {cards}
    /\ pending = [s \in SessionIds |-> IdleAdmin]
    /\ saving = [s \in SessionIds |-> IdleSave]

InitOrder == InitFrom(1)

NextCreateMove ==
    \/ \E s \in SessionIds, column \in Columns : CreateCard(s, column)
    \/ \E s \in SessionIds, id \in CardIds, toColumn \in Columns, toIndex \in 0..MaxIndex :
           MoveCard(s, id, toColumn, toIndex)

NextOrder ==
    \/ NextCreateMove
    \/ \E s \in SessionIds, id \in CardIds : DeleteCard(s, id)

NextOneBoard ==
    \/ \E column \in Columns : CreateCard("s1", column)
    \/ \E id \in CardIds, toColumn \in Columns, toIndex \in 0..MaxIndex :
           MoveCard("s1", id, toColumn, toIndex)
    \/ \E id \in CardIds : DeleteCard("s1", id)

\* create and move requests of both sessions, one at a time, from an empty board
SpecCreateMove == InitOrder /\ [][NextCreateMove]_vars

\* create, move and delete requests of both sessions, one at a time
SpecOrder == InitOrder /\ [][NextOrder]_vars

\* create, move and delete requests of one session, one at a time
SpecOneBoard == InitOrder /\ [][NextOneBoard]_vars

\* the ids of the two cards SpecIso creates, and of the one SpecGate creates
IsoCards == {MaxCards - 1, MaxCards}
GateCards == {MaxCards}

\* the requests for the rows that hang on card id: participants, comments and
\* attachments
ChildRequest(s, id) ==
    \/ AddParticipant(s, id, "u1")
    \/ RemoveParticipant(s, id, "u1")
    \/ CreateComment(s, id, "b1")
    \/ CreateAttachment(s, id)

\* the requests that name a comment or an attachment
RowRequest(s, body) ==
    \/ \E id \in CommentIds : UpdateComment(s, id, body)
    \/ \E id \in CommentIds : DeleteComment(s, id)
    \/ \E id \in AttachmentIds : DownloadAttachment(s, id)
    \/ \E id \in AttachmentIds : DeleteAttachment(s, id)

NextIso ==
    \/ \E s \in SessionIds : GetBoard(s)
    \/ \E s \in SessionIds, id \in IsoCards : GetCard(s, id)
    \/ \E s \in SessionIds, column \in Columns : CreateCard(s, column)
    \/ \E s \in SessionIds, id \in IsoCards, assignee \in {<<>>, <<"u1@local">>} :
           UpdateCard(s, id, [assignee |-> assignee])
    \/ \E s \in SessionIds, id \in IsoCards, toColumn \in Columns, toIndex \in {0, MaxIndex} :
           MoveCard(s, id, toColumn, toIndex)
    \/ \E s \in SessionIds, id \in IsoCards : DeleteCard(s, id)
    \/ \E s \in SessionIds : ChildRequest(s, MaxCards)
    \/ \E s \in SessionIds : RowRequest(s, "b2")

\* every board-scoped request of two sessions on two boards, one at a time, over
\* two cards; the newer card gets participants, comments and attachments
SpecIso == InitFrom(MaxCards - 1) /\ [][NextIso]_vars

NextGate ==
    \/ \E s \in SessionIds, boardId \in BoardIds : SelectBoard(s, boardId)
    \/ \E s \in SessionIds, memberIds \in {<<>>, <<"u1">>} : 
           \E id \in BoardIds : UpdateBoard(s, id, memberIds)
    \/ \E s \in SessionIds, id \in BoardIds : DeleteBoard(s, id)
    \/ \E s \in SessionIds : GetUsers(s)
    \/ \E s \in SessionIds : GetBoard(s)
    \/ \E s \in SessionIds, id \in GateCards : GetCard(s, id)
    \/ \E s \in SessionIds : CreateCard(s, ColumnIds[1])
    \/ \E s \in SessionIds, id \in GateCards : UpdateCard(s, id, [assignee |-> <<>>])
    \/ \E s \in SessionIds, id \in GateCards : MoveCard(s, id, ColumnIds[1], 0)
    \/ \E s \in SessionIds, id \in GateCards : DeleteCard(s, id)
    \/ \E s \in SessionIds, id \in GateCards : ChildRequest(s, id)
    \/ \E s \in SessionIds : RowRequest(s, "b1")

\* board selection, membership changes and board deletion between the
\* board-scoped requests of two sessions, over one card
SpecGate == InitFrom(MaxCards) /\ [][NextGate]_vars

\* The card table after k sequential POST /cards of session s1, the i-th into
\* column cols[i]
createdBoard(cols) ==
    [i \in 1..Len(cols) |->
        [boardId |-> DEFAULT_BOARD_ID, column |-> cols[i],
         position |-> Cardinality({j \in 1..(i - 1) : cols[j] = cols[i]}),
         authorId |-> "admin", assignee |-> NoAssignee]]

\* Both sessions on the default board, which holds up to MaxCards created cards
InitConc ==
    /\ \E k \in 0..MaxCards : \E cols \in [1..k -> Columns] :
           /\ cards = createdBoard(cols)
           /\ nextCard = k + 1
    /\ users = [u \in UserIds |-> enrolledUser(u)]
    /\ memberships = <<Membership(DEFAULT_BOARD_ID, "admin"),
                       Membership(DEFAULT_BOARD_ID, "u1")>>
    /\ boards = BoardIds
    /\ sessions = [s \in SessionIds |->
                      [userId |-> IF s = "s1" THEN "admin" ELSE "u1",
                       twoFactorPassed |-> TRUE,
                       boardId |-> DEFAULT_BOARD_ID]]
    /\ participants = {}
    /\ comments = <<>>
    /\ nextComment = 1
    /\ attachments = <<>>
    /\ nextAttachment = 1
    /\ noCredentials
    /\ noMail
    /\ res = NoResponse
    /\ reqs = [r \in ReqIds |-> IdleRequest]
    /\ history = {cards}
    /\ pending = [s \in SessionIds |-> IdleAdmin]
    /\ saving = [s \in SessionIds |-> IdleSave]

NextConc ==
    \/ \E r \in ReqIds, column \in Columns : CreateAggregate(r, "s1", column)
    \/ \E r \in ReqIds : CreateInsert(r)
    \/ \E r \in ReqIds, id \in CardIds, toColumn \in Columns, toIndex \in 0..MaxIndex :
           MoveFindFirst(r, "s1", id, toColumn, toIndex)
    \/ \E r \in ReqIds : MoveFromCards(r)
    \/ \E r \in ReqIds : MoveToCards(r)
    \/ \E r \in ReqIds : MoveTransaction(r)
    \/ \E r \in ReqIds, id \in CardIds : DeleteFindFirst(r, "s1", id)
    \/ \E r \in ReqIds : DeleteRow(r)
    \/ \E r \in ReqIds : BoardStart(r, "s1")
    \/ \E r \in ReqIds, column \in Columns : BoardFindMany(r, column)

\* two requests on one board, interleaved at every database statement
SpecConc == InitConc /\ [][NextConc]_vars

\* ------------------------------------------------------------------ claims

\* The cards of a column in display order, when their positions are distinct
OrderOf(cs, boardId, column) ==
    LET S == InColumn(cs, boardId, column)
    IN  [i \in 1..Cardinality(S) |->
            CHOOSE x \in S :
                Cardinality({y \in S : cs[y].position < cs[x].position}) = i - 1]

\* The positions of a column are exactly 0..n-1, no two cards sharing one
Dense(cs, boardId, column) ==
    LET S == InColumn(cs, boardId, column)
    IN  /\ {cs[id].position : id \in S} = 0..(Cardinality(S) - 1)
        /\ \A x, y \in S : x # y => cs[x].position # cs[y].position

AllDense(cs) == \A b \in BoardIds, col \in Columns : Dense(cs, b, col)

\* The cards of `order` carry positions 0..n-1 in that order
Numbered(cs, order) == \A i \in 1..Len(order) : cs[order[i]].position = i - 1

Without(L, id) == SelectSeq(L, LAMBDA x : x # id)

\* L with id put at 0-based index k
InsertedAt(L, k, id) ==
    [i \in 1..(Len(L) + 1) |->
        IF i <= k THEN L[i] ELSE IF i = k + 1 THEN id ELSE L[i - 1]]

\* the 0-based index of a card in its column's display order
CurrentIndex(cs, id) ==
    Cardinality({y \in InColumn(cs, cs[id].boardId, cs[id].column) :
                    cs[y].position < cs[id].position})

\* the request of session s reaches its handler and finds the card on s's board
Admitted(s, id) == gate(s) = 0 /\ findCard(cards, id, sessions[s].boardId)

\* C1: after any sequence of create and move requests run one at a time from an
\* empty board, the positions of every (board, column) are exactly 0..n-1
C1_DensityCreateMove == AllDense(cards)

\* a cross-column move has acted and left the moved card in a column of two or
\* more cards, every card id having been created
C1_Witness ==
    /\ res.op = "move" /\ res.status = 200 /\ res.notify = "moved"
    /\ nextCard > MaxCards
    /\ Cardinality(InColumn(cards, cards[res.card].boardId, cards[res.card].column)) >= 2

\* C4: a same-column move of card id in a column of order L (n cards) leaves the
\* column in the order of L without id, with id put back at index
\* min(toIndex, n-1), and numbers it 0..n-1 in that order
C4_SameColumnMove ==
    [][\A s \in {res'.session} \cap SessionIds, id \in {res'.card} \cap CardIds,
          toIndex \in 0..MaxIndex :
          (Admitted(s, id) /\ MoveCard(s, id, cards[id].column, toIndex)) =>
              LET b == cards[id].boardId
                  col == cards[id].column
                  L == OrderOf(cards, b, col)
                  expected == InsertedAt(Without(L, id), Min(toIndex, Len(L) - 1), id)
              IN  /\ res'.status = 200
                  /\ OrderOf(cards', b, col) = expected
                  /\ Numbered(cards', expected)
                  /\ cards'[id].column = col]_vars

\* a same-column move has acted on a column of three or more cards and left
\* the moved card neither first nor last
C4_Witness ==
    /\ res.op = "move" /\ res.status = 200 /\ res.notify = "none" /\ res.writes >= 3
    /\ cards[res.card].position = 1

\* C5: a cross-column move of card id from column X (order LX) to column Y
\* (order LY, m cards) of the same board at index k leaves X in the order of LX
\* without id numbered 0..n-2, Y in the order of LY with id at index min(k, m)
\* numbered 0..m, and id's column field equal to Y
C5_CrossColumnMove ==
    [][\A s \in {res'.session} \cap SessionIds, id \in {res'.card} \cap CardIds,
          Y \in Columns, k \in 0..MaxIndex :
          (Admitted(s, id) /\ Y # cards[id].column /\ MoveCard(s, id, Y, k)) =>
              LET b == cards[id].boardId
                  X == cards[id].column
                  LX == OrderOf(cards, b, X)
                  LY == OrderOf(cards, b, Y)
                  expectedX == Without(LX, id)
                  expectedY == InsertedAt(LY, Min(k, Len(LY)), id)
              IN  /\ res'.status = 200
                  /\ OrderOf(cards', b, X) = expectedX
                  /\ Numbered(cards', expectedX)
                  /\ OrderOf(cards', b, Y) = expectedY
                  /\ Numbered(cards', expectedY)
                  /\ cards'[id].column = Y
                  /\ cards'[id].boardId = b]_vars

\* a cross-column move has acted, the moved card sits between two cards of the
\* destination column
C5_Witness ==
    /\ res.op = "move" /\ res.status = 200 /\ res.notify = "moved"
    /\ cards[res.card].position = 1
    /\ Cardinality(InColumn(cards, cards[res.card].boardId, cards[res.card].column)) = 3

\* C6: moving a card to its current column and its current index changes no
\* card's position or column, issues no position write and dispatches no
\* notification, in every reachable state of the column
C6_NoOpMove ==
    [][\A s \in {res'.session} \cap SessionIds, id \in {res'.card} \cap CardIds :
          (Admitted(s, id)
             /\ MoveCard(s, id, cards[id].column, CurrentIndex(cards, id))) =>
              /\ cards' = cards
              /\ res'.writes = 0
              /\ res'.notify = "none"]_vars

\* C7: after a card deletion, and after a later creation, the positions of every
\* (board, column) are exactly 0..n-1
C7_DensityAfterDelete ==
    (res.op \in {"delete", "create"} /\ res.status \in {200, 201}) => AllDense(cards)

\* the columns a move request reads and renumbers
Touched(req) == {req.fromColumn, req.column}

\* request r has been answered with a success status
Succeeded(r) == reqs[r].pc = "done" /\ reqs[r].status \in {200, 201}

\* C2: when two moves that touch a common column of one board overlap, then
\* after both have committed every column they touched has positions exactly
\* 0..n-1 without duplicates, each a valid index of its column
C2_DenseAfterOverlappingMoves ==
    \A r, q \in ReqIds :
        (/\ r # q
         /\ reqs[r].kind = "move" /\ reqs[q].kind = "move"
         /\ Succeeded(r) /\ Succeeded(q)
         /\ reqs[r].overlap /\ reqs[q].overlap
         /\ reqs[r].boardId = reqs[q].boardId
         /\ Touched(reqs[r]) \cap Touched(reqs[q]) # {}) =>
            \A col \in Touched(reqs[r]) \cup Touched(reqs[q]) :
                /\ Dense(cards, reqs[r].boardId, col)
                /\ \A id \in InColumn(cards, reqs[r].boardId, col) :
                       cards[id].position \in
                           0..(Cardinality(InColumn(cards, reqs[r].boardId, col)) - 1)

\* a reader's finished response shows the board as one value of the Card table
SeesSnapshot(req) ==
    \E h \in history :
        \A col \in Columns :
            \E ids \in findManyIds(h, req.boardId, col) :
                req.view[col] = columnRows(h, ids)

\* C3: the writes of a move are one atomic step for every concurrent reader: what
\* GET /board returns is the board before the move or the board after it, never
\* a source column already renumbered beside a destination column not yet changed
C3_NoPartialMoveObserved ==
    \A r \in ReqIds :
        (reqs[r].kind = "board" /\ Succeeded(r)) => SeesSnapshot(reqs[r])

\* C8: when a creation overlaps another creation into its column, or a move
\* that renumbers its column, the cards of that column end with pairwise
\* distinct positions forming 0..n-1
C8_DenseAfterOverlappingCreate ==
    \A r, q \in ReqIds :
        (/\ r # q
         /\ reqs[r].kind = "create" /\ Succeeded(r) /\ Succeeded(q)
         /\ reqs[r].overlap /\ reqs[q].overlap
         /\ reqs[r].boardId = reqs[q].boardId
         /\ \/ reqs[q].kind = "create" /\ reqs[q].column = reqs[r].column
            \/ reqs[q].kind = "move" /\ reqs[r].column \in Touched(reqs[q])) =>
            Dense(cards, reqs[r].boardId, reqs[r].column)

\* the responses of the routes under /cards/:id, /comments/:id and /attachments/:id
CardOps ==
    {"card", "update", "move", "delete", "addParticipant", "removeParticipant",
     "comment", "attach"}
CommentOps == {"editComment", "deleteComment"}
AttachmentOps == {"download", "detach"}

\* the responses of the routes behind the board-context gate
BoardOps == {"users", "board", "create"} \cup CardOps \cup CommentOps \cup AttachmentOps

\* the cards of the boards other than session s's active board
Foreign(s) == {id \in DOMAIN cards : cards[id].boardId # sessions[s].boardId}

\* the participant, comment and attachment rows of card id
Hanging(ps, cms, atts, id) ==
    <<{p \in ps : p[1] = id},
      {<<c, cms[c]>> : c \in {x \in DOMAIN cms : cms[x].cardId = id}},
      {<<a, atts[a]>> : a \in {x \in DOMAIN atts : atts[x].cardId = id}}>>

\* the request just answered named a card of another board than session s's, or
\* a comment or an attachment of such a card
TargetsForeign(s) ==
    \/ res'.op \in CardOps /\ res'.card \in Foreign(s)
    \/ /\ res'.op \in CommentOps
       /\ res'.card \in DOMAIN comments
       /\ comments[res'.card].cardId \in Foreign(s)
    \/ /\ res'.op \in AttachmentOps
       /\ res'.card \in DOMAIN attachments
       /\ attachments[res'.card].cardId \in Foreign(s)

\* C9: under a session whose active board is B, no response holds a card of
\* another board A; every request that names a card of A, or a comment or
\* attachment of one, is answered 404 and changes no card, participant, comment
\* or attachment; and no request changes a card of A, its position or its rows
C9_BoardIsolation ==
    [][\A s \in {res'.session} \cap SessionIds :
          sessions[s].boardId # NoBoard =>
              /\ res'.returned \cap Foreign(s) = {}
              /\ \A id \in Foreign(s) :
                     /\ id \in DOMAIN cards'
                     /\ cards'[id] = cards[id]
                     /\ Hanging(participants', comments', attachments', id)
                            = Hanging(participants, comments, attachments, id)
              /\ TargetsForeign(s) =>
                     /\ res'.status = 404
                     /\ UNCHANGED <<cards, children>>]_vars

\* a move request named a card of another board, which holds a second card, and
\* was answered 404
C9_Witness ==
    /\ res.op = "move" /\ res.status = 404
    /\ res.card \in DOMAIN cards
    /\ cards[res.card].boardId # sessions[res.session].boardId
    /\ \E other \in DOMAIN cards \ {res.card} :
           cards[other].boardId = cards[res.card].boardId

\* C10: every request behind the board-context gate is judged by the session's
\* board and the membership rows of the moment: no selected board is answered
\* 400; a non-admin without a row for (board, user) is answered 403, also when
\* the row was removed after the board was selected; an ADMIN with a selected
\* board is never answered 400 or 403, and neither 400 a member with a row
C10_BoardContextGate ==
    res.op \in BoardOps =>
        LET boardId == sessions[res.session].boardId
            userId == sessions[res.session].userId
            row == \E i \in 1..Len(memberships) :
                       memberships[i] = [boardId |-> boardId, userId |-> userId]
        IN  /\ boardId = NoBoard => res.status = 400
            /\ (boardId # NoBoard /\ users[userId].role # "ADMIN" /\ ~row) =>
                   res.status = 403
            /\ (boardId # NoBoard /\ users[userId].role = "ADMIN") =>
                   res.status \notin {400, 403}
            /\ (boardId # NoBoard /\ row) => res.status # 400

\* a member's request is answered 403 on a board that exists and that the
\* member had selected while a member of it
C10_Witness ==
    /\ res.op \in BoardOps /\ res.status = 403
    /\ users[sessions[res.session].userId].role # "ADMIN"
    /\ sessions[res.session].boardId \in boards
    /\ ~hasMembership(sessions[res.session].boardId, sessions[res.session].userId)

\* C11: selectBoard(X) by a non-admin without a membership row for X is answered
\* 403 and leaves the session's selected board as it was; selectBoard(X) by an
\* ADMIN is answered 200 and sets the session's selected board to X
C11_SelectBoard ==
    [][res'.op = "select" =>
          \A s \in {res'.session} \cap SessionIds, X \in BoardIds :
              SelectBoard(s, X) =>
                  LET userId == sessions[s].userId
                      row == \E i \in 1..Len(memberships) :
                                 memberships[i] = [boardId |-> X, userId |-> userId]
                  IN  /\ (users[userId].role # "ADMIN" /\ ~row) =>
                             /\ res'.status = 403
                             /\ sessions' = sessions
                      /\ users[userId].role = "ADMIN" =>
                             /\ res'.status = 200
                             /\ sessions'[s].boardId = X]_vars

\* a member was refused a board while another board stays selected, and an
\* ADMIN's selection of a board without a row of theirs has succeeded before
C11_Witness ==
    /\ res.op = "select" /\ res.status = 403
    /\ users[sessions[res.session].userId].role # "ADMIN"
    /\ sessions[res.session].boardId \in BoardIds
    /\ \E s \in SessionIds :
           /\ users[sessions[s].userId].role = "ADMIN"
           /\ sessions[s].boardId \in BoardIds
           /\ ~hasMembership(sessions[s].boardId, sessions[s].userId)

\* ------------------------------------------------------------ accounts

\* The tables of InitFrom with the given User rows, sessions and SMTP_*
\* environment, and no card
InitAccounts(rows, saved, env) ==
    /\ cards = <<>>
    /\ nextCard = MaxCards
    /\ users = rows
    /\ memberships = <<Membership(DEFAULT_BOARD_ID, "admin"),
                       Membership(DEFAULT_BOARD_ID, "u1"),
                       Membership("B1", "u1")>>
    /\ boards = BoardIds
    /\ sessions = saved
    /\ participants = {}
    /\ comments = <<>>
    /\ nextComment = 1
    /\ attachments = <<>>
    /\ nextAttachment = 1
    /\ noCredentials
    /\ mailSettings = "none"
    /\ smtpEnv = env
    /\ mailRow = NoMailRow
    /\ mailer = IdleMailer
    /\ res = NoResponse
    /\ reqs = [r \in ReqIds |-> IdleRequest]
    /\ history = {cards}
    /\ pending = [s \in SessionIds |-> IdleAdmin]
    /\ saving = [s \in SessionIds |-> IdleSave]

\* the codes of a request: none, a wrong one, the code of a secret
Codes == {NoCode, WrongCode, 1, 2}

\* two enrolled users and two browsers without a session
InitLogin ==
    InitAccounts([u \in UserIds |-> enrolledUser(u)], [s \in SessionIds |-> Anonymous], FALSE)

\* one device is remembered
NextLogin ==
    \/ \E s \in SessionIds, login \in Logins, password \in Passwords,
          totp \in Codes, rememberDevice \in {r \in BOOLEAN : r => nextToken = 1} :
           Login(s, login, password, totp, rememberDevice)
    \/ \E s \in SessionIds : Logout(s)
    \/ Advance(DAYS * 24, DAYS * 24)

\* logins and logouts of two browsers, and the expiry of trusted devices
SpecLogin == InitLogin /\ [][NextLogin]_vars

\* the identifier names the user: their email, the alias of admin@local, or
\* a name no other user bears
Identifies(login, u) ==
    \/ login = users[u].email
    \/ login = "admin" /\ users[u].email = "admin@local"
    \/ /\ login = users[u].name
       /\ \A v \in DOMAIN users : users[v].name = login => v = u

\* the browser of s holds an unexpired trusted-device token of user u
Trusted(s, u) ==
    /\ deviceCookies[s] # NoToken
    /\ \E d \in trustedDevices :
           /\ d.userId = u
           /\ d.tokenHash = <<"sha256", deviceCookies[s]>>
           /\ d.expiresAt > now

\* C12: a login of a TOTP-enabled user with the correct password answers
\* "Two-factor required" without a code and without a valid trusted-device
\* token of that user, succeeds with twoFactorPassed = true without a code but
\* with such a token, and answers "Invalid 2FA code" for a wrong code; every
\* failing login leaves the sessions as they were.
C12_LoginSecondFactor ==
    [][res'.op = "login" =>
          \A s \in {res'.session} \cap SessionIds, login \in Logins,
             password \in Passwords, totp \in Codes, rememberDevice \in BOOLEAN :
              Login(s, login, password, totp, rememberDevice) =>
                  /\ res'.status # 200 => sessions' = sessions
                  /\ \A u \in DOMAIN users :
                         (/\ Identifies(login, u)
                          /\ users[u].totpEnabled
                          /\ users[u].totpSecret # NoSecret
                          /\ users[u].passwordHash = <<"hash", password>>) =>
                             /\ (totp = NoCode /\ ~Trusted(s, u)) =>
                                    /\ res'.status = 401
                                    /\ res'.error = "Two-factor required"
                             /\ (totp = NoCode /\ Trusted(s, u)) =>
                                    /\ res'.status = 200
                                    /\ sessions'[s].userId = u
                                    /\ sessions'[s].twoFactorPassed
                             /\ (totp \notin {NoCode, users[u].totpSecret}) =>
                                    /\ res'.status = 401
                                    /\ res'.error = "Invalid 2FA code"]_vars

\* a login without a code was let in by the trusted device of the browser
C12_Witness ==
    /\ res.op = "login" /\ res.status = 200
    /\ sessions[res.session].twoFactorPassed
    /\ \E d \in trustedDevices :
           /\ d.userId = sessions[res.session].userId
           /\ d.tokenHash = <<"sha256", deviceCookies[res.session]>>
           /\ d.lastUsedAt # NoTime

\* a user an administrator created: a temporary password, no TOTP yet
freshUser(u) ==
    [enrolledUser(u) EXCEPT !.mustChangePassword = TRUE, !.totpEnabled = FALSE,
                            !.totpSecret = NoSecret]

\* the administrator is enrolled, u1 is fresh; two browsers without a session
InitEnroll ==
    InitAccounts([u \in UserIds |-> IF u = "admin" THEN enrolledUser(u) ELSE freshUser(u)],
                 [s \in SessionIds |-> Anonymous], FALSE)

\* u1 logs in from both browsers, changes the password, enrolls and verifies
NextEnroll ==
    \/ \E s \in SessionIds, password \in Passwords, totp \in {NoCode, WrongCode} \cup Secrets :
           Login(s, "u1@local", password, totp, FALSE)
    \/ \E s \in SessionIds : Logout(s)
    \/ \E s \in SessionIds : ChangePassword(s, "p1")
    \/ \E s \in SessionIds : Setup2FA(s)
    \/ \E s \in SessionIds, code \in {WrongCode} \cup Secrets : Enable2FA(s, code)
    \/ \E s \in SessionIds, code \in {WrongCode} \cup Secrets,
          rememberDevice \in {r \in BOOLEAN : r => nextToken = 1} :
           Verify2FA(s, code, rememberDevice)

SpecEnroll == InitEnroll /\ [][NextEnroll]_vars

\* C13: the session of a user whose TOTP is enabled becomes two-factor-passed
\* only in a login or in a /2fa/verify, the requests that check the confirmed
\* secret or a trusted-device token; no other request sets the flag.
C13_PassedOnlyByCheck ==
    [][\A s \in SessionIds :
          (/\ sessions[s].userId \in DOMAIN users
           /\ users[sessions[s].userId].totpEnabled
           /\ ~sessions[s].twoFactorPassed
           /\ sessions'[s].twoFactorPassed) =>
              /\ res'.session = s
              /\ res'.op \in {"login", "verify"}]_vars

\* a request to each route behind router.use(requireLogin(), requireTwoFactor())
ProtectedRequest(s) ==
    \/ GetUsers(s)
    \/ GetBoard(s)
    \/ GetCard(s, MaxCards)
    \/ CreateCard(s, ColumnIds[1])
    \/ UpdateCard(s, MaxCards, [assignee |-> <<>>])
    \/ MoveCard(s, MaxCards, ColumnIds[1], 0)
    \/ DeleteCard(s, MaxCards)
    \/ ChildRequest(s, MaxCards)
    \/ RowRequest(s, "b2")
    \/ SelectBoard(s, "B1")
    \/ UpdateBoard(s, "B1", <<>>)
    \/ DeleteBoard(s, "B1")

\* u1 logs in from two browsers and, in the first, changes the password,
\* enrolls, verifies and logs out
NextAdmit ==
    \/ \E s \in SessionIds, totp \in {NoCode, 3} : Login(s, "u1@local", "p0", totp, FALSE)
    \/ Logout("s1")
    \/ ChangePassword("s1", "p0")
    \/ Setup2FA("s1")
    \/ \E code \in {WrongCode, 3} : Enable2FA("s1", code)
    \/ \E code \in {WrongCode, 3} : Verify2FA("s1", code, FALSE)
    \/ \E s \in SessionIds : ProtectedRequest(s)

\* from the first login of a fresh user to the enrolled session, with requests
\* to the protected routes in every state of a session
SpecAdmit == InitEnroll /\ [][NextAdmit]_vars

\* the responses of the routes behind requireLogin and requireTwoFactor
ProtectedOps == BoardOps \cup {"select", "updateBoard", "deleteBoard"}

\* C14: a logged-in session is held at the first unmet condition of
\* must-change-password, must-setup-2FA, must-verify-2FA: a protected board or
\* card route admits no session of a user whose mustChangePassword is set.
C14_Precedence ==
    [][res'.op \in ProtectedOps =>
          \A s \in {res'.session} \cap SessionIds :
              (/\ sessions[s].userId \in DOMAIN users
               /\ users[sessions[s].userId].mustChangePassword) =>
                  res'.status \in {401, 403}]_vars

\* the session of a user that exists; and one that passed the second factor
Authenticated(s) == sessions[s].userId \in DOMAIN users
Satisfied(s) ==
    /\ Authenticated(s)
    /\ users[sessions[s].userId].totpEnabled
    /\ sessions[s].twoFactorPassed

\* every table, the session store and the cookies
stored == <<cards, nextCard, access, children, creds>>

\* the responses of the routes behind requireLogin alone
EnrollOps == {"password", "setup", "enable", "verify"}

\* the responses of the routes that take any session
OpenOps == {"none", "login", "logout", "forgot", "reset", "resetByTotp"}

InitReset ==
    InitAccounts([u \in UserIds |-> IF u = "admin" THEN enrolledUser(u) ELSE freshUser(u)],
                 [s \in SessionIds |-> Anonymous], TRUE)

NextReset ==
    \/ \E s \in SessionIds, login \in {"admin", "u1@local"}, password \in Passwords,
          totp \in {NoCode, 1}, rememberDevice \in {r \in BOOLEAN : r => nextToken = 1} :
           Login(s, login, password, totp, rememberDevice)
    \/ \E s \in SessionIds, login \in Emails : ForgotPassword(s, login)
    \/ \E s \in SessionIds, token \in Tokens : ResetPassword(s, token, "p1")
    \/ \E s \in SessionIds, login \in Emails, code \in {WrongCode, 1} :
           ResetPasswordByTotp(s, login, code, "p1")
    \/ \E s \in SessionIds : GetUsers(s)
    \/ Advance(RESET_HOURS, RESET_HOURS)

\* logins, both ways to reset a password, and a protected request, one request
\* at a time
SpecReset == InitReset /\ [][NextReset]_vars

\* the step is a successful password reset of user u: by a token of u that the
\* request presented, or by reset-by-totp with an identifier of u
ResetOf(u) ==
    /\ res'.status = 200
    /\ \/ /\ res'.op = "reset"
          /\ \E i \in DOMAIN resetTokens :
                 /\ resetTokens[i].tokenHash = <<"sha256", res'.given[1]>>
                 /\ resetTokens[i].userId = u
       \/ /\ res'.op = "resetByTotp"
          /\ Identifies(res'.given[1], u)

\* C16: after a successful password reset, by token or by TOTP code, no
\* session of that user is left, and a request of a session without a user is
\* answered 401 Unauthorized.
C16_SessionsInvalidated ==
    [][/\ res'.op \in {"reset", "resetByTotp"} =>
              \A u \in DOMAIN users :
                  ResetOf(u) => \A s \in SessionIds : sessions'[s].userId # u
       /\ \A s \in {res'.session} \cap SessionIds :
              (res'.op \in ProtectedOps /\ sessions[s].userId \notin DOMAIN users) =>
                  res'.status = 401]_vars

\* a browser that had logged in as the administrator, remembering the device,
\* is refused as unauthorized after the administrator's password was reset
C16_Witness ==
    /\ res.op = "users" /\ res.status = 401
    /\ res.session \in SessionIds
    /\ deviceCookies[res.session] # NoToken
    /\ sessions[res.session] = Anonymous
    /\ users["admin"].passwordHash = <<"hash", "p1">>

\* C17: after a successful password reset, by token or by TOTP code, no
\* unexpired trusted device of that user is left, so that a login without a
\* code needs the second factor again.
C17_DevicesInvalidated ==
    [][res'.op \in {"reset", "resetByTotp"} =>
          \A u \in DOMAIN users :
              ResetOf(u) =>
                  \A d \in trustedDevices' : ~(d.userId = u /\ d.expiresAt > now')]_vars

\* C19: a request without a session replaces a password hash only when it
\* presents an unexpired, unused reset token, and then that of the token's user,
\* or a code valid for the confirmed secret of the TOTP-enabled user it names;
\* reset-by-totp for an account without TOTP fails and changes nothing.
C19_ResetNeedsProof ==
    [][res'.op \in {"forgot", "reset", "resetByTotp"} =>
          /\ (res'.op = "reset" /\ res'.status = 200) =>
                 \E i \in DOMAIN resetTokens :
                     /\ resetTokens[i].tokenHash = <<"sha256", res'.given[1]>>
                     /\ resetTokens[i].usedAt = NoTime
                     /\ resetTokens[i].expiresAt > now
                     /\ \A u \in DOMAIN users :
                            u # resetTokens[i].userId => users'[u] = users[u]
          /\ (res'.op = "resetByTotp" /\ res'.status = 200) =>
                 \E u \in DOMAIN users :
                     /\ Identifies(res'.given[1], u)
                     /\ users[u].totpEnabled
                     /\ users[u].totpSecret # NoSecret
                     /\ res'.given[2] = users[u].totpSecret
                     /\ \A v \in DOMAIN users : v # u => users'[v] = users[v]
          /\ (res'.op = "forgot" \/ res'.status # 200) => users' = users
          /\ res'.op = "resetByTotp" =>
                 \A u \in DOMAIN users :
                     (Identifies(res'.given[1], u) /\ ~users[u].totpEnabled) =>
                         res'.status = 400 /\ UNCHANGED stored]_vars

\* reset-by-totp was refused for u1, who has no TOTP, after u1's password was
\* reset with a token
C19_Witness ==
    /\ res.op = "resetByTotp" /\ res.status = 400
    /\ res.error = "Password reset not available"
    /\ ~users["u1"].totpEnabled
    /\ users["u1"].passwordHash = <<"hash", "p1">>
    /\ \E i \in DOMAIN resetTokens :
           resetTokens[i].userId = "u1" /\ resetTokens[i].usedAt # NoTime

NextRedeem ==
    \/ \E s \in SessionIds, password \in Passwords :
           Login(s, "u1@local", password, NoCode, FALSE)
    \/ \E s \in SessionIds : ForgotPassword(s, "u1@local")
    \/ \E s \in SessionIds, token \in Tokens, newPassword \in Passwords :
           ResetFind(s, token, newPassword)
    \/ \E s \in SessionIds : ResetCommit(s)
    \/ Advance(RESET_HOURS, RESET_HOURS)

\* the redemptions of u1's reset tokens by two browsers, statement by statement,
\* so that one request's findFirst can fall between the other's findFirst and
\* $transaction
SpecRedeem == InitReset /\ [][NextRedeem]_vars

\* C18: a reset token is single-use: it changes the password at most once, also
\* when two redemptions overlap; a redemption that succeeds finds its token
\* unused.
C18_SingleUse ==
    [][(res'.op = "reset" /\ res'.status = 200) =>
          \E i \in DOMAIN resetTokens :
              /\ resetTokens[i].tokenHash = <<"sha256", res'.given[1]>>
              /\ resetTokens[i].usedAt = NoTime]_vars

\* two enrolled users, who bear different names or the same name; the SMTP_*
\* environment is set or not; no MailSettings row yet
InitForgot ==
    \E sameName \in BOOLEAN, env \in BOOLEAN :
        InitAccounts([u \in UserIds |->
                         IF sameName THEN [enrolledUser(u) EXCEPT !.name = "u1"]
                         ELSE enrolledUser(u)],
                     [s \in SessionIds |-> Anonymous], env)

NextForgot ==
    \/ Login("s1", "admin", "p0", 1, FALSE)
    \/ \E s \in SessionIds, enabled \in BOOLEAN : PutMailSettings(s, enabled)
    \/ \E s \in SessionIds, login \in Logins : ForgotPassword(s, login)
    \/ \E s \in SessionIds, token \in Tokens : ResetPassword(s, token, "p1")

\* forgotten-password requests for known, unknown and ambiguous identifiers,
\* while the administrator enables and disables the mail settings
SpecForgot == InitForgot /\ [][NextForgot]_vars

\* C20: POST /password/forgot gives the same ok response whatever the identifier,
\* and creates a token row only when the identifier resolves to exactly one user
\* and outbound mail is configured (the mailer has a configuration to send with).
C20_ForgotOnlyWithMail ==
    [][res'.op = "forgot" =>
          /\ res'.status = 200 /\ res'.error = ""
          /\ resetTokens' # resetTokens =>
                 /\ getMailConfig
                 /\ Len(resetTokens') = Len(resetTokens) + 1
                 /\ Identifies(res'.given[1], resetTokens'[Len(resetTokens')].userId)]_vars

\* two enrolled users whose names differ, or differ in case only; two browsers
\* without a session
InitResolve ==
    \E sameName \in BOOLEAN :
        InitAccounts([u \in UserIds |->
                         IF sameName /\ u = "admin"
                         THEN [enrolledUser(u) EXCEPT !.name = "U1"]
                         ELSE enrolledUser(u)],
                     [s \in SessionIds |-> Anonymous], FALSE)

\* the identifiers of the login requests: the alias, in two spellings, emails,
\* a name, in two spellings, and a name nobody bears
LoginIds == {"admin", "Admin", "admin@local", "u1@local", "u1", "U1", "nobody"}

NextResolve ==
    \/ \E s \in SessionIds, login \in LoginIds, password \in Passwords,
          totp \in {NoCode, 1, 2} :
           Login(s, login, password, totp, FALSE)
    \/ \E s \in SessionIds : Logout(s)

\* logins with every kind of identifier, right and wrong passwords
SpecResolve == InitResolve /\ [][NextResolve]_vars

\* the users whose name is the identifier but for case; the user of an email
NameMatches(login) ==
    {u \in DOMAIN users : toLowerCase(users[u].name) = toLowerCase(login)}
EmailMatches(email) ==
    {u \in DOMAIN users : toLowerCase(users[u].email) = email}

\* the users the identifier resolves to: none, one, or several (ambiguous)
Resolved(login) ==
    IF toLowerCase(login) = "admin" THEN EmailMatches("admin@local")
    ELSE IF login \in Emails THEN EmailMatches(login)
    ELSE NameMatches(login)

\* C21: the alias "admin" and an email resolve to at most one user; a bare name
\* resolves only when exactly one user bears it but for case, gives the
\* ambiguous-login error when several do, and is unresolved otherwise; an
\* unresolvable identifier and a wrong password give the same "Invalid
\* credentials" error, and no failing login touches a session.
C21_LoginResolution ==
    [][res'.op = "login" =>
          \A s \in {res'.session} \cap SessionIds, login \in LoginIds,
             password \in Passwords, totp \in {NoCode, 1, 2} :
              Login(s, login, password, totp, FALSE) =>
                  /\ (toLowerCase(login) = "admin" \/ login \in Emails) =>
                         Cardinality(Resolved(login)) <= 1
                  /\ Cardinality(Resolved(login)) > 1 =>
                         /\ res'.status = 400
                         /\ res'.error = "Ambiguous login, use email"
                         /\ sessions' = sessions
                  /\ (\/ Resolved(login) = {}
                      \/ \E u \in Resolved(login) :
                             /\ Resolved(login) = {u}
                             /\ users[u].passwordHash # <<"hash", password>>) =>
                         /\ res'.status = 401
                         /\ res'.error = "Invalid credentials"
                         /\ sessions' = sessions
                  /\ res'.status = 200 =>
                         /\ Resolved(login) = {sessions'[s].userId}
                         /\ users[sessions'[s].userId].passwordHash = <<"hash", password>>]_vars

\* a login by a name that two users bear but for case was refused as ambiguous
\* while the other browser is logged in by email
C21_Witness ==
    /\ res.op = "login" /\ res.status = 400
    /\ res.error = "Ambiguous login, use email"
    /\ Cardinality(NameMatches("u1")) = 2
    /\ \E s \in SessionIds : sessions[s].userId = "u1"

\* C24: every user who is not an ADMIN has at least one BoardMembership row.
C24_MemberHasMembership ==
    \A u \in DOMAIN users :
        users[u].role # "ADMIN" =>
            \E i \in 1..Len(memberships) : memberships[i].userId = u

\* C25: the default board exists in every state, and a delete request for it is
\* rejected (400 from an administrator) with boards, memberships, users'
\* default boards and sessions unchanged.
C25_DefaultBoardPermanent ==
    [][/\ DEFAULT_BOARD_ID \in boards'
       /\ res'.op = "deleteBoard" =>
              \A s \in {res'.session} \cap SessionIds :
                  DeleteBoard(s, DEFAULT_BOARD_ID) =>
                      /\ res'.status \in {400, 401, 403}
                      /\ (Satisfied(s) /\ users[sessions[s].userId].role = "ADMIN") =>
                             res'.status = 400
                      /\ UNCHANGED <<boards, memberships, users, sessions, cards>>]_vars

\* an administrator who had deleted the other board was refused the deletion of
\* the default board
C25_Witness ==
    /\ res.op = "deleteBoard" /\ res.status = 400
    /\ boards = {DEFAULT_BOARD_ID}

\* the board of the earliest membership row of user u on a board other than id
EarliestOther(ms, u, id) ==
    LET at == {i \in 1..Len(ms) : ms[i].userId = u /\ ms[i].boardId # id}
    IN  IF at = {} THEN NoBoard
        ELSE ms[CHOOSE i \in at : \A j \in at : i <= j].boardId

\* C27: a member-list update that removes a user from their default board, and
\* the deletion of a board that is a user's default board, set that user's
\* defaultBoardId to the board of their earliest remaining membership on another
\* board, or to null; the other users keep their defaultBoardId.
C27_DefaultFallback ==
    [][(res'.op \in {"updateBoard", "deleteBoard"} /\ res'.status = 200) =>
          \A s \in {res'.session} \cap SessionIds, id \in BoardIds :
              /\ \A memberIds \in {<<>>, <<"u1">>} :
                     UpdateBoard(s, id, memberIds) =>
                         \A u \in DOMAIN users :
                             LET removed ==
                                     /\ \E i \in 1..Len(memberships) :
                                            memberships[i] = [boardId |-> id, userId |-> u]
                                     /\ \A i \in 1..Len(memberIds) : memberIds[i] # u
                             IN  users'[u].defaultBoardId =
                                     IF removed /\ users[u].defaultBoardId = id
                                     THEN EarliestOther(memberships', u, id)
                                     ELSE users[u].defaultBoardId
              /\ DeleteBoard(s, id) =>
                     \A u \in DOMAIN users :
                         users'[u].defaultBoardId =
                             IF users[u].defaultBoardId = id
                             THEN EarliestOther(memberships', u, id)
                             ELSE users[u].defaultBoardId]_vars

\* the deletion of board B1, u1's default board, left u1's default board on the
\* default board, where u1 had been made a member again
C27_Witness ==
    /\ res.op = "deleteBoard" /\ res.status = 200
    /\ "B1" \notin boards
    /\ users["u1"].defaultBoardId = DEFAULT_BOARD_ID
    /\ users["admin"].defaultBoardId = NoBoard

\* two browser sessions, the first one the administrator's and the second one the
\* administrator's or u1's, each with a board selected
InitStale ==
    /\ cards = <<>>
    /\ nextCard = MaxCards
    /\ users = [u \in UserIds |-> enrolledUser(u)]
    /\ memberships = <<Membership(DEFAULT_BOARD_ID, "admin"),
                       Membership(DEFAULT_BOARD_ID, "u1"),
                       Membership("B1", "u1")>>
    /\ boards = BoardIds
    /\ \E second \in UserIds, b1 \in BoardIds, b2 \in BoardIds :
           sessions = [s \in SessionIds |->
                          [userId |-> IF s = "s1" THEN "admin" ELSE second,
                           twoFactorPassed |-> TRUE,
                           boardId |-> IF s = "s1" THEN b1 ELSE b2]]
    /\ participants = {}
    /\ comments = <<>>
    /\ nextComment = 1
    /\ attachments = <<>>
    /\ nextAttachment = 1
    /\ noCredentials
    /\ noMail
    /\ res = NoResponse
    /\ reqs = [r \in ReqIds |-> IdleRequest]
    /\ history = {cards}
    /\ pending = [s \in SessionIds |-> IdleAdmin]
    /\ saving = [s \in SessionIds |-> IdleSave]

NextStale ==
    \/ \E s \in SessionIds, boardId \in BoardIds : SelectBoard(s, boardId)
    \/ \E s \in SessionIds, id \in BoardIds : DeleteBoard(s, id)
    \/ \E s \in SessionIds : GetUsers(s)
    \/ \E s \in SessionIds : GetBoard(s)
    \/ \E s \in SessionIds, id \in GateCards : GetCard(s, id)
    \/ \E s \in SessionIds : CreateCard(s, ColumnIds[1])
    \/ \E s \in SessionIds, id \in GateCards : DeleteCard(s, id)

\* board deletion between the board-scoped requests of two sessions that may
\* belong to the same administrator
SpecStale == InitStale /\ [][NextStale]_vars

\* C26: after a board is deleted, the deleting session has no board selected, and
\* no board-scoped request of a session whose selected board no longer exists
\* is admitted: it is answered 400 (BoardNotSelected) or 403 (Forbidden).
C26_DeletedBoardNotAdmitted ==
    [][\A s \in {res'.session} \cap SessionIds :
          /\ (res'.op = "deleteBoard" /\ res'.status = 200) =>
                 sessions'[s].boardId \in boards' \cup {NoBoard}
          /\ (res'.op \in BoardOps /\ sessions[s].boardId \notin boards \cup {NoBoard}) =>
                 res'.status \in {400, 403}]_vars

\* ------------------------------------------------------- user administration

\* the id a created user can get
NewUserIds == {"u2"}

noRoleCheck(s) == 0

\* requireAdmin
requireAdmin(s) ==
    IF users[sessions[s].userId].role # "ADMIN" THEN 403 ELSE 0

\* requireLogin(), requireTwoFactor(), requireAdmin(): 0 when the request passes
adminOnly(s) ==
    IF signedIn(s) # 0 THEN signedIn(s) ELSE requireAdmin(s)

\* data.email.split("@")[0]
localPart(email) ==
    CASE email = "admin@local" -> "admin"
      [] email = "u1@local" -> "u1"
      [] email = "u2@local" -> "u2"
      [] OTHER -> email

\* board.findFirst({orderBy: {createdAt: "asc"}})?.id: the default board is
\* created at startup, before any other board
firstCreatedBoard ==
    IF DEFAULT_BOARD_ID \in boards THEN DEFAULT_BOARD_ID
    ELSE IF boards = {} THEN NoBoard
    ELSE CHOOSE b \in boards : TRUE

\* user.count({where: {role: ADMIN}})
adminCount == Cardinality({u \in DOMAIN users : users[u].role = "ADMIN"})

\* the request's answer, with the :id and the role of the request
Administered(op, s, status, error, id, role) ==
    Redeemed(op, s, status, error, <<id, role>>)

\* POST /users: id is the fresh id of the created row
CreateUser(s, id, email, role, password) ==
    /\ id \notin DOMAIN users
    /\ \A t \in SessionIds : pending[t].id # id /\ sessions[t].userId # id
    /\ LET boardId == IF sessions[s].boardId # NoBoard THEN sessions[s].boardId
                      ELSE firstCreatedBoard
       IN  IF adminOnly(s) # 0
           THEN /\ res' = Administered("createUser", s, adminOnly(s), "", id, <<role>>)
                /\ UNCHANGED <<users, memberships>>
           ELSE IF boardId = NoBoard
           THEN /\ res' = Administered("createUser", s, 500, "No boards exist", id, <<role>>)
                /\ UNCHANGED <<users, memberships>>
           ELSE IF \/ boardId \notin boards
                   \/ \E u \in DOMAIN users : users[u].email = email
           THEN \* the foreign key to Board, or the unique index on email
                /\ res' = Administered("createUser", s, 500, "", id, <<role>>)
                /\ UNCHANGED <<users, memberships>>
           ELSE /\ users' = users @@ (id :>
                       [role |-> IF role = "ADMIN" THEN "ADMIN" ELSE "MEMBER",
                        isSystem |-> FALSE,
                        email |-> email,
                        name |-> localPart(email),
                        passwordHash |-> hashPassword(password),
                        mustChangePassword |-> TRUE,
                        totpEnabled |-> FALSE,
                        totpSecret |-> NoSecret,
                        totpTempSecret |-> NoSecret,
                        defaultBoardId |-> boardId])
                /\ memberships' = Append(memberships, Membership(boardId, id))
                /\ res' = Administered("createUser", s, 201, "", id, <<role>>)
    /\ UNCHANGED <<cards, nextCard, boards, sessions, children, creds, inflight>>

roleUnlocked(u, role) == FALSE

\* u.isSystem and data.role !== undefined
roleLocked(u, role) == u.isSystem /\ role # <<>>

\* PATCH /users/:id, statement by statement: the middleware chain, findUnique
\* and the system-admin check; role and email are <<>> when the body has none
PatchUserFind(s, id, role, email) ==
    /\ pending[s].pc = "idle"
    /\ IF adminOnly(s) # 0
       THEN /\ res' = Administered("patchUser", s, adminOnly(s), "", id, role)
            /\ UNCHANGED pending
       ELSE IF id \notin DOMAIN users
       THEN /\ res' = Administered("patchUser", s, 404, "User not found", id, role)
            /\ UNCHANGED pending
       ELSE IF roleLocked(users[id], role)
       THEN /\ res' = Administered("patchUser", s, 400,
                                   "Cannot change role for system admin", id, role)
            /\ UNCHANGED pending
       ELSE /\ pending' = [pending EXCEPT ![s] =
                              [pc |-> "patchCheck", id |-> id, role |-> role, email |-> email,
                               u |-> [role |-> users[id].role,
                                      isSystem |-> users[id].isSystem,
                                      defaultBoardId |-> users[id].defaultBoardId]]]
            /\ res' = NoResponse
    /\ UNCHANGED <<cards, nextCard, access, children, creds, reqs, history, saving>>

\* PATCH /users/:id: the count of the admins and the findFirst by email
PatchUserCheck(s) ==
    /\ pending[s].pc = "patchCheck"
    /\ LET p == pending[s]
       IN  IF p.role = <<"MEMBER">> /\ p.u.role = "ADMIN" /\ adminCount <= 1
           THEN /\ res' = Administered("patchUser", s, 400, "Cannot demote last admin",
                                       p.id, p.role)
                /\ pending' = [pending EXCEPT ![s] = IdleAdmin]
           ELSE IF /\ p.email # <<>>
                   /\ \E o \in DOMAIN users \ {p.id} :
                          toLowerCase(users[o].email) = toLowerCase(p.email[1])
           THEN /\ res' = Administered("patchUser", s, 400, "Email already exists",
                                       p.id, p.role)
                /\ pending' = [pending EXCEPT ![s] = IdleAdmin]
           ELSE /\ pending' = [pending EXCEPT ![s].pc = "patchTx"]
                /\ res' = NoResponse
    /\ UNCHANGED <<cards, nextCard, access, children, creds, reqs, history, saving>>

\* PATCH /users/:id: the $transaction and the response
PatchUserTransaction(s) ==
    /\ pending[s].pc = "patchTx"
    /\ LET p == pending[s]
           id == p.id
           nextRole == IF p.role # <<>> THEN p.role[1] ELSE p.u.role
           count == Cardinality({i \in 1..Len(memberships) : memberships[i].userId = id})
           needs == nextRole = "MEMBER" /\ count = 0
           boardId == IF p.u.defaultBoardId # NoBoard THEN p.u.defaultBoardId
                      ELSE IF firstCreatedBoard # NoBoard THEN firstCreatedBoard
                      ELSE DEFAULT_BOARD_ID
       IN  IF \/ id \notin DOMAIN users
              \/ needs /\ boardId \notin boards
              \/ /\ p.email # <<>>
                 /\ \E o \in DOMAIN users \ {id} : users[o].email = p.email[1]
           THEN \* a foreign key, the unique index on email or the missing row
                \* fails a statement and the transaction rolls back
                /\ res' = Administered("patchUser", s, 500, "", id, p.role)
                /\ UNCHANGED <<users, memberships>>
           ELSE /\ memberships' = IF needs THEN Append(memberships, Membership(boardId, id))
                                  ELSE memberships
                /\ users' = [users EXCEPT ![id] =
                                [@ EXCEPT !.defaultBoardId = IF needs THEN boardId ELSE @,
                                          !.email = IF p.email # <<>> THEN p.email[1] ELSE @,
                                          !.role = IF p.role # <<>> THEN p.role[1] ELSE @]]
                /\ res' = Administered("patchUser", s, 200, "", id, p.role)
    /\ pending' = [pending EXCEPT ![s] = IdleAdmin]
    /\ UNCHANGED <<cards, nextCard, boards, sessions, children, creds, reqs, history, saving>>

neverSystemAdmin(u) == FALSE

\* u.isSystem
isSystemAdmin(u) == u.isSystem

\* DELETE /users/:id, statement by statement: the middleware chain, the check
\* against the actor, findUnique and the system-admin check
DeleteUserFind(s, id) ==
    /\ pending[s].pc = "idle"
    /\ IF adminOnly(s) # 0
       THEN /\ res' = Administered("deleteUser", s, adminOnly(s), "", id, <<>>)
            /\ UNCHANGED pending
       ELSE IF id = sessions[s].userId
       THEN /\ res' = Administered("deleteUser", s, 400, "Cannot delete yourself", id, <<>>)
            /\ UNCHANGED pending
       ELSE IF id \notin DOMAIN users
       THEN /\ res' = Administered("deleteUser", s, 404, "User not found", id, <<>>)
            /\ UNCHANGED pending
       ELSE IF isSystemAdmin(users[id])
       THEN /\ res' = Administered("deleteUser", s, 400, "Cannot delete system admin",
                                   id, <<>>)
            /\ UNCHANGED pending
       ELSE /\ pending' = [pending EXCEPT ![s] =
                              [pc |-> "deleteCount", id |-> id, role |-> <<>>, email |-> <<>>,
                               u |-> [role |-> users[id].role,
                                      isSystem |-> users[id].isSystem,
                                      defaultBoardId |-> NoBoard]]]
            /\ res' = NoResponse
    /\ UNCHANGED <<cards, nextCard, access, children, creds, reqs, history, saving>>

\* DELETE /users/:id: the count of the admins
DeleteUserCount(s) ==
    /\ pending[s].pc = "deleteCount"
    /\ IF pending[s].u.role = "ADMIN" /\ adminCount <= 1
       THEN /\ res' = Administered("deleteUser", s, 400, "Cannot delete last admin",
                                   pending[s].id, <<>>)
            /\ pending' = [pending EXCEPT ![s] = IdleAdmin]
       ELSE /\ pending' = [pending EXCEPT ![s].pc = "delete"]
            /\ res' = NoResponse
    /\ UNCHANGED <<cards, nextCard, access, children, creds, reqs, history, saving>>

\* DELETE /users/:id: the DELETE FROM "session", which is best-effort (its
\* rejection is caught and ignored, and the sessions then stay), prisma.user.delete
\* with its ON DELETE CASCADE and SET NULL rules, and the response
DeleteUserCommit(s) ==
    /\ pending[s].pc = "delete"
    /\ LET id == pending[s].id
       IN  /\ sessions' \in {deleteSessions(id), sessions}
           /\ IF id \notin DOMAIN users
              THEN /\ res' = Administered("deleteUser", s, 500, "", id, <<>>)
                   /\ UNCHANGED <<cards, users, memberships, participants, comments,
                                  trustedDevices, resetTokens>>
              ELSE /\ users' = [u \in DOMAIN users \ {id} |-> users[u]]
                   /\ memberships' = SelectSeq(memberships, LAMBDA m : m.userId # id)
                   /\ cards' = [c \in DOMAIN cards |->
                                   IF cards[c].authorId = id
                                   THEN [cards[c] EXCEPT !.authorId = NoUser]
                                   ELSE cards[c]]
                   /\ comments' = [c \in DOMAIN comments |->
                                      IF comments[c].authorId = id
                                      THEN [comments[c] EXCEPT !.authorId = NoUser]
                                      ELSE comments[c]]
                   /\ participants' = {p \in participants : p[2] # id}
                   /\ trustedDevices' = {d \in trustedDevices : d.userId # id}
                   /\ resetTokens' = SelectSeq(resetTokens, LAMBDA r : r.userId # id)
                   /\ res' = Administered("deleteUser", s, 200, "", id, <<>>)
    /\ pending' = [pending EXCEPT ![s] = IdleAdmin]
    /\ UNCHANGED <<nextCard, boards, nextComment, attachments, nextAttachment,
                   deviceCookies, resets, nextToken, nextSecret, now, mailSettings,
                   smtpEnv, mailRow, mailer, reqs, history, saving>>

\* PUT /users/:id/boards with boardIds (a sequence of board ids, each once)
SetUserBoards(s, id, boardIds, defaultBoardId) ==
    /\ LET listed == {boardIds[i] : i \in 1..Len(boardIds)}
           kept == SelectSeq(memberships, LAMBDA m : m.userId # id \/ m.boardId \in listed)
           toAdd == SelectSeq(boardIds, LAMBDA b : ~hasMembership(b, id))
       IN  IF adminOnly(s) # 0
           THEN /\ res' = Administered("setUserBoards", s, adminOnly(s), "", id, <<>>)
                /\ UNCHANGED <<users, memberships>>
           ELSE IF id \notin DOMAIN users
           THEN /\ res' = Administered("setUserBoards", s, 404, "User not found", id, <<>>)
                /\ UNCHANGED <<users, memberships>>
           ELSE IF users[id].role = "ADMIN" \/ users[id].isSystem
           THEN /\ res' = Administered("setUserBoards", s, 400,
                                       "Admins have access to all boards", id, <<>>)
                /\ UNCHANGED <<users, memberships>>
           ELSE IF defaultBoardId \notin listed
           THEN /\ res' = Administered("setUserBoards", s, 400,
                                       "defaultBoardId must be included in boardIds", id, <<>>)
                /\ UNCHANGED <<users, memberships>>
           ELSE IF ~(listed \subseteq boards)
           THEN \* a foreign key to Board fails and the transaction rolls back
                /\ res' = Administered("setUserBoards", s, 500, "", id, <<>>)
                /\ UNCHANGED <<users, memberships>>
           ELSE /\ users' = [users EXCEPT ![id].defaultBoardId = defaultBoardId]
                /\ memberships' = kept \o [i \in 1..Len(toAdd) |-> Membership(toAdd[i], id)]
                /\ res' = Administered("setUserBoards", s, 200, "", id, <<>>)
    /\ UNCHANGED <<cards, nextCard, boards, sessions, children, creds, inflight>>

\* the users in the order of their createdAt
CreatedOrder == <<"admin", "u1", "u2">>

\* ensureDefaultAdmin, at the start of the server: no request is in flight
EnsureDefaultAdmin ==
    /\ \A s \in SessionIds : pending[s].pc = "idle"
    /\ boards' = boards \cup {DEFAULT_BOARD_ID}
    /\ IF DOMAIN users = {}
       THEN /\ users' = ("admin" :>
                   [role |-> "ADMIN",
                    isSystem |-> TRUE,
                    email |-> "admin@local",
                    name |-> "administrator",
                    passwordHash |-> hashPassword("admin"),
                    mustChangePassword |-> TRUE,
                    totpEnabled |-> FALSE,
                    totpSecret |-> NoSecret,
                    totpTempSecret |-> NoSecret,
                    defaultBoardId |-> DEFAULT_BOARD_ID])
            /\ memberships' = Append(memberships, Membership(DEFAULT_BOARD_ID, "admin"))
       ELSE LET existing == SelectSeq(CreatedOrder, LAMBDA u : u \in DOMAIN users)
                admins == SelectSeq(existing, LAMBDA u : users[u].role = "ADMIN")
                marked == IF /\ \A u \in DOMAIN users : ~users[u].isSystem
                             /\ admins # <<>>
                          THEN [users EXCEPT ![admins[1]].isSystem = TRUE]
                          ELSE users
                bare == SelectSeq(existing, LAMBDA u :
                            \A i \in 1..Len(memberships) : memberships[i].userId # u)
            IN  /\ users' = [u \in DOMAIN users |->
                                IF marked[u].defaultBoardId = NoBoard
                                THEN [marked[u] EXCEPT !.defaultBoardId = DEFAULT_BOARD_ID]
                                ELSE marked[u]]
                /\ memberships' = memberships \o
                       [i \in 1..Len(bare) |-> Membership(users'[bare[i]].defaultBoardId, bare[i])]
    /\ res' = NoResponse
    /\ UNCHANGED <<cards, nextCard, sessions, children, creds, inflight>>

\* the system administrator and u1, who is an administrator or a member, both
\* enrolled; the first browser is the administrator's, the second one is the
\* administrator's or u1's
InitUsers ==
    /\ \E role \in {"ADMIN", "MEMBER"}, second \in UserIds :
           InitAccounts([u \in UserIds |->
                            IF u = "admin" THEN enrolledUser(u)
                            ELSE [enrolledUser(u) EXCEPT !.role = role]],
                        [s \in SessionIds |->
                            [userId |-> IF s = "s1" THEN "admin" ELSE second,
                             twoFactorPassed |-> TRUE,
                             boardId |-> DEFAULT_BOARD_ID]],
                        FALSE)

NextUsers ==
    \/ \E s \in SessionIds, role \in {"ADMIN", "MEMBER"} :
           CreateUser(s, "u2", "u2@local", role, "p1")
    \/ \E s \in SessionIds, id \in UserIds \cup NewUserIds,
          role \in {<<>>, <<"ADMIN">>, <<"MEMBER">>} :
           PatchUserFind(s, id, role, IF role = <<>> THEN <<"U1@local">> ELSE <<>>)
    \/ \E s \in SessionIds : PatchUserCheck(s)
    \/ \E s \in SessionIds : PatchUserTransaction(s)
    \/ \E s \in SessionIds, id \in UserIds \cup NewUserIds : DeleteUserFind(s, id)
    \/ \E s \in SessionIds : DeleteUserCount(s)
    \/ \E s \in SessionIds : DeleteUserCommit(s)
    \/ \E s \in SessionIds, boardIds \in {<<"B1">>, <<DEFAULT_BOARD_ID, "B1">>} :
           SetUserBoards(s, "u1", boardIds, "B1")
    \/ EnsureDefaultAdmin

\* the user-administration requests of two browsers, statement by statement and
\* interleaved, and restarts of the server
SpecUsers == InitUsers /\ [][NextUsers]_vars

\* the tables and sessions a user-administration request can write
administered == <<cards, users, memberships, boards, sessions, children,
                  trustedDevices, resetTokens>>

\* the answered request asked to delete user id
AsksDelete(r, id) == r.op = "deleteUser" /\ r.given[1] = id

\* the answered request asked to make user id a MEMBER
AsksDemote(r, id) == r.op = "patchUser" /\ r.given = <<id, <<"MEMBER">>>>

\* C22: in every state some user is an ADMIN, whatever the order and the
\* interleaving of the statements of the user-update and user-delete requests;
\* a request to demote or to delete the only ADMIN is answered with an error and
\* changes nothing.
C22_AdminRemains ==
    [][/\ adminCount' >= 1
       /\ \A id \in DOMAIN users :
              (/\ users[id].role = "ADMIN"
               /\ adminCount = 1
               /\ AsksDelete(res', id) \/ AsksDemote(res', id)) =>
                  /\ res'.status \in {400, 401, 403}
                  /\ UNCHANGED administered]_vars

\* the only ADMIN was asked to become a MEMBER, by itself, and was not
C22_Witness ==
    /\ AsksDemote(res, "admin")
    /\ res.status = 400
    /\ adminCount = 1
    /\ "u1" \in DOMAIN users /\ "u2" \in DOMAIN users

\* C23: exactly one user has isSystem, and that user is an ADMIN; a request to
\* delete that user, or to update it with a role in the body, is answered with
\* an error and changes nothing, however many other admins there are; no
\* operation sets isSystem on another user.
C23_SystemAdminImmutable ==
    [][/\ Cardinality({u \in DOMAIN users' : users'[u].isSystem}) = 1
       /\ \A u \in DOMAIN users' :
              users'[u].isSystem =>
                  /\ users'[u].role = "ADMIN"
                  /\ u \in DOMAIN users /\ users[u].isSystem
       /\ \A id \in DOMAIN users :
              (/\ users[id].isSystem
               /\ \/ AsksDelete(res', id)
                  \/ res'.op = "patchUser" /\ res'.given[1] = id /\ res'.given[2] # <<>>) =>
                  /\ res'.status \in {400, 401, 403}
                  /\ UNCHANGED administered]_vars

\* another administrator asked to delete the system administrator and was refused
C23_Witness ==
    /\ AsksDelete(res, "admin")
    /\ res.session = "s2"
    /\ res.status = 400
    /\ res.error = "Cannot delete system admin"
    /\ adminCount = 3

\* the administrator and two members of the default board, all enrolled; the
\* first browser is the administrator's, the second one u1's
InitOwn ==
    /\ cards = <<>>
    /\ nextCard = MaxCards
    /\ users = [u \in UserIds \cup NewUserIds |->
                   IF u \in UserIds THEN enrolledUser(u)
                   ELSE [enrolledUser(u) EXCEPT !.email = "u2@local", !.name = "u2"]]
    /\ memberships = <<Membership(DEFAULT_BOARD_ID, "admin"),
                       Membership(DEFAULT_BOARD_ID, "u1"),
                       Membership(DEFAULT_BOARD_ID, "u2")>>
    /\ boards = BoardIds
    /\ sessions = [s \in SessionIds |->
                      [userId |-> IF s = "s1" THEN "admin" ELSE "u1",
                       twoFactorPassed |-> TRUE,
                       boardId |-> DEFAULT_BOARD_ID]]
    /\ participants = {}
    /\ comments = <<>>
    /\ nextComment = 1
    /\ attachments = <<>>
    /\ nextAttachment = 1
    /\ noCredentials
    /\ noMail
    /\ res = NoResponse
    /\ reqs = [r \in ReqIds |-> IdleRequest]
    /\ history = {cards}
    /\ pending = [s \in SessionIds |-> IdleAdmin]
    /\ saving = [s \in SessionIds |-> IdleSave]

\* the second browser logs out and in as u1 or u2; files are uploaded from the
\* administrator's browser only; the administrator deletes u1
NextOwn ==
    \/ \E s \in SessionIds : CreateCard(s, ColumnIds[1])
    \/ \E s \in SessionIds, id \in GateCards, assignee \in {<<>>, <<"u1@local">>} :
           UpdateCard(s, id, [assignee |-> assignee])
    \/ \E s \in SessionIds, id \in GateCards : CreateComment(s, id, "b1")
    \/ \E s \in SessionIds, id \in CommentIds : UpdateComment(s, id, "b2")
    \/ \E s \in SessionIds, id \in CommentIds : DeleteComment(s, id)
    \/ \E id \in GateCards : CreateAttachment("s1", id)
    \/ \E s \in SessionIds, id \in AttachmentIds : DeleteAttachment(s, id)
    \/ DeleteUserFind("s1", "u1")
    \/ DeleteUserCount("s1")
    \/ DeleteUserCommit("s1")
    \/ Logout("s2")
    \/ \E login \in {"u1", "u2"} : Login("s2", login, "p0", secretOf(login), FALSE)

\* the requests on one card, its comment and its attachment from the
\* administrator, the card's or comment's author and another member of the board
SpecOwn == InitOwn /\ [][NextOwn]_vars

\* C28: an update-card request with an assignee from a user who is neither an
\* ADMIN nor the card's author is answered 403 and leaves the card as it was,
\* while the same user's request without an assignee is answered 200; a card
\* whose author was deleted (authorId null) is no exception, and an ADMIN's
\* request sets its assignee.
C28_AssigneeOwnership ==
    [][res'.op = "update" =>
          \A s \in {res'.session} \cap SessionIds, id \in {res'.card} \cap DOMAIN cards :
              (gate(s) = 0 /\ findCard(cards, id, sessions[s].boardId)) =>
                  LET actor == sessions[s].userId
                      stranger == /\ users[actor].role # "ADMIN"
                                  /\ cards[id].authorId # actor
                  IN  /\ \A a \in Assignees :
                             UpdateCard(s, id, [assignee |-> <<a>>]) =>
                                 IF stranger
                                 THEN res'.status = 403 /\ UNCHANGED cards
                                 ELSE res'.status = 200 /\ cards'[id].assignee = a
                      /\ UpdateCard(s, id, [assignee |-> <<>>]) =>
                             res'.status = 200 /\ UNCHANGED cards]_vars

\* a member was refused the assignee of a card whose author had been deleted
C28_Witness ==
    /\ res.op = "update" /\ res.status = 403
    /\ res.card \in DOMAIN cards
    /\ cards[res.card].authorId = NoUser
    /\ sessions[res.session].userId = "u2"

\* C29: an update or delete request for a comment, and a delete request for an
\* attachment, from a member of the board who is neither an ADMIN nor the author
\* of the comment or the uploader of the attachment (every attachment is
\* uploaded by the administrator) is answered 403 and leaves the row as it was.
C29_OnlyAuthorOrAdmin ==
    [][\A s \in {res'.session} \cap SessionIds :
          (gate(s) = 0 /\ users[sessions[s].userId].role # "ADMIN") =>
              /\ (/\ res'.op \in CommentOps
                  /\ res'.card \in DOMAIN comments
                  /\ comments[res'.card].authorId # sessions[s].userId) =>
                     res'.status = 403 /\ UNCHANGED comments
              /\ (/\ res'.op = "detach"
                  /\ res'.card \in DOMAIN attachments) =>
                     res'.status = 403 /\ UNCHANGED attachments]_vars

\* ------------------------------------- the handlers that write req.session,
\* statement by statement: the handler up to its last assignment to
\* req.session, req.session.save, and the response

Unsaved(s, op, session, status, save) ==
    [saving EXCEPT ![s] =
        [pc |-> "respond", loaded |-> sessions[s], session |-> session,
         written |-> FALSE, op |-> op, status |-> status]]

\* the locals of the request of session s after the handler's statements before
\* `await req.session.save` (save: the handler reaches that statement) or, when
\* it has none on its path, before res.json; loaded is the session the
\* middleware read from the store, session is req.session
Handled(s, op, session, status, save) ==
    [saving EXCEPT ![s] =
        [pc |-> IF save THEN "save" ELSE "respond", loaded |-> sessions[s],
         session |-> session, written |-> FALSE, op |-> op, status |-> status]]

\* POST /boards/select up to req.session.boardId = boardId
SelectBoardHandle(s, boardId) ==
    /\ saving[s].pc = "idle"
    /\ IF signedIn(s) # 0
       THEN /\ res' = Response("select", s, NoCard, signedIn(s), "none", 0)
            /\ UNCHANGED saving
       ELSE IF /\ users[sessions[s].userId].role # "ADMIN"
               /\ ~hasMembership(boardId, sessions[s].userId)
       THEN /\ res' = Response("select", s, NoCard, 403, "none", 0)
            /\ UNCHANGED saving
       ELSE /\ saving' = Handled(s, "select", [sessions[s] EXCEPT !.boardId = boardId],
                                 200, TRUE)
            /\ res' = NoResponse
    /\ UNCHANGED <<cards, nextCard, access, children, creds, reqs, history, pending>>

\* POST /login with a code or without one and without rememberDevice, up to the
\* assignments to req.session
LoginHandle(s, login, password, totp) ==
    /\ saving[s].pc = "idle"
    /\ LET u == findLoginUser(login)
       IN  IF u = Ambiguous
           THEN /\ res' = Answer("login", s, 400, "Ambiguous login, use email")
                /\ UNCHANGED <<saving, trustedDevices>>
           ELSE IF u = NoUser \/ ~verifyPassword(password, users[u].passwordHash)
           THEN /\ res' = Answer("login", s, 401, "Invalid credentials")
                /\ UNCHANGED <<saving, trustedDevices>>
           ELSE IF loginSecondFactor(s, u, totp) # 0
           THEN /\ res' = Answer("login", s, loginSecondFactor(s, u, totp),
                              IF users[u].totpSecret = NoSecret THEN "2FA misconfigured"
                              ELSE IF totp # NoCode THEN "Invalid 2FA code"
                              ELSE "Two-factor required")
                /\ UNCHANGED <<saving, trustedDevices>>
           ELSE /\ trustedDevices' = IF users[u].totpEnabled /\ totp = NoCode
                                     THEN touchedDevices(u, deviceCookies[s])
                                     ELSE trustedDevices
                /\ saving' = Handled(s, "login", loggedIn(u), 200, TRUE)
                /\ res' = NoResponse
    /\ UNCHANGED <<cards, nextCard, access, children, deviceCookies, resetTokens, resets,
                   nextToken, nextSecret, now, mailSettings, smtpEnv, mailRow, mailer, reqs, history, pending>>

\* POST /2fa/enable up to req.session.twoFactorPassed = true
Enable2FAHandle(s, code) ==
    /\ saving[s].pc = "idle"
    /\ IF requireLogin(s) # 0
       THEN /\ res' = Answer("enable", s, 401, "Unauthorized")
            /\ UNCHANGED <<users, saving>>
       ELSE IF users[sessions[s].userId].totpTempSecret = NoSecret
       THEN /\ res' = Answer("enable", s, 400, "No 2FA setup in progress")
            /\ UNCHANGED <<users, saving>>
       ELSE IF ~verifyTotp(code, users[sessions[s].userId].totpTempSecret)
       THEN /\ res' = Answer("enable", s, 400, "Invalid code")
            /\ UNCHANGED <<users, saving>>
       ELSE /\ users' = [users EXCEPT ![sessions[s].userId] =
                            [@ EXCEPT !.totpEnabled = TRUE,
                                      !.totpSecret = users[sessions[s].userId].totpTempSecret,
                                      !.totpTempSecret = NoSecret]]
            /\ saving' = Handled(s, "enable", [sessions[s] EXCEPT !.twoFactorPassed = TRUE],
                                 200, TRUE)
            /\ res' = NoResponse
    /\ UNCHANGED <<cards, nextCard, memberships, boards, sessions, children, creds,
                   reqs, history, pending>>

\* POST /2fa/verify without rememberDevice, up to req.session.twoFactorPassed = true
Verify2FAHandle(s, code) ==
    /\ saving[s].pc = "idle"
    /\ IF requireLogin(s) # 0
       THEN /\ res' = Answer("verify", s, 401, "Unauthorized")
            /\ UNCHANGED saving
       ELSE IF \/ ~users[sessions[s].userId].totpEnabled
               \/ users[sessions[s].userId].totpSecret = NoSecret
       THEN /\ res' = Answer("verify", s, 400, "2FA not enabled")
            /\ UNCHANGED saving
       ELSE IF ~verifyTotp(code, users[sessions[s].userId].totpSecret)
       THEN /\ res' = Answer("verify", s, 400, "Invalid code")
            /\ UNCHANGED saving
       ELSE /\ saving' = Handled(s, "verify", [sessions[s] EXCEPT !.twoFactorPassed = TRUE],
                                 200, TRUE)
            /\ res' = NoResponse
    /\ UNCHANGED <<cards, nextCard, access, children, creds, reqs, history, pending>>

\* PATCH /profile up to req.session.boardId = data.defaultBoardId; defaultBoardId
\* is <<>> when the body has none, and the body has no name, email or avatar
PatchProfileHandle(s, defaultBoardId) ==
    /\ saving[s].pc = "idle"
    /\ IF signedIn(s) # 0
       THEN /\ res' = Answer("profile", s, signedIn(s), "")
            /\ UNCHANGED <<users, saving>>
       ELSE IF /\ defaultBoardId # <<>>
               /\ users[sessions[s].userId].role # "ADMIN"
               /\ ~hasMembership(defaultBoardId[1], sessions[s].userId)
       THEN /\ res' = Answer("profile", s, 403, "Forbidden")
            /\ UNCHANGED <<users, saving>>
       ELSE IF defaultBoardId # <<>> /\ defaultBoardId[1] \notin boards
       THEN \* the foreign key from User.defaultBoardId to Board
            /\ res' = Answer("profile", s, 500, "")
            /\ UNCHANGED <<users, saving>>
       ELSE /\ users' = IF defaultBoardId = <<>> THEN users
                        ELSE [users EXCEPT ![sessions[s].userId].defaultBoardId =
                                               defaultBoardId[1]]
            /\ saving' = Handled(s, "profile",
                                 IF defaultBoardId = <<>> THEN sessions[s]
                                 ELSE [sessions[s] EXCEPT !.boardId = defaultBoardId[1]],
                                 200, defaultBoardId # <<>>)
            /\ res' = NoResponse
    /\ UNCHANGED <<cards, nextCard, memberships, boards, sessions, children, creds,
                   reqs, history, pending>>

\* DELETE /boards/:id up to delete req.session.boardId
DeleteBoardHandle(s, id) ==
    /\ saving[s].pc = "idle"
    /\ IF signedIn(s) # 0
       THEN /\ res' = Response("deleteBoard", s, NoCard, signedIn(s), "none", 0)
            /\ UNCHANGED <<cards, users, memberships, boards, children, saving>>
       ELSE IF users[sessions[s].userId].role # "ADMIN"
       THEN /\ res' = Response("deleteBoard", s, NoCard, 403, "none", 0)
            /\ UNCHANGED <<cards, users, memberships, boards, children, saving>>
       ELSE IF isDefaultBoard(id)
       THEN /\ res' = Response("deleteBoard", s, NoCard, 400, "none", 0)
            /\ UNCHANGED <<cards, users, memberships, boards, children, saving>>
       ELSE IF id \notin boards
       THEN /\ res' = Response("deleteBoard", s, NoCard, 500, "none", 0)
            /\ UNCHANGED <<cards, users, memberships, boards, children, saving>>
       ELSE LET gone == {c \in DOMAIN cards : cards[c].boardId = id}
            IN  /\ users' = repointDefaults(memberships, DOMAIN users, id)
                /\ boards' = boards \ {id}
                /\ memberships' = SelectSeq(memberships, LAMBDA m : m.boardId # id)
                /\ cards' = [c \in DOMAIN cards \ gone |-> cards[c]]
                /\ participants' = cascadeParticipants(gone)
                /\ comments' = cascadeRows(comments, gone)
                /\ attachments' = cascadeRows(attachments, gone)
                /\ UNCHANGED <<nextComment, nextAttachment>>
                /\ saving' = Handled(s, "deleteBoard",
                                     IF sessions[s].boardId = id
                                     THEN [sessions[s] EXCEPT !.boardId = NoBoard]
                                     ELSE sessions[s],
                                     200, sessions[s].boardId = id)
                /\ res' = NoResponse
    /\ UNCHANGED <<nextCard, sessions, creds, reqs, history, pending>>

\* await new Promise((resolve, reject) => req.session.save(...)): the store's row
\* of the session becomes req.session
SessionSave(s) ==
    /\ saving[s].pc = "save"
    /\ sessions' = [sessions EXCEPT ![s] = saving[s].session]
    /\ saving' = [saving EXCEPT ![s].pc = "respond", ![s].written = TRUE]
    /\ res' = NoResponse
    /\ UNCHANGED <<cards, nextCard, users, memberships, boards, children, creds,
                   reqs, history, pending>>

\* res.json: the response is sent; the session middleware (resave: false) writes
\* a req.session that was changed and not saved when the response ends
SendResponse(s) ==
    /\ saving[s].pc = "respond"
    /\ res' = Answer(saving[s].op, s, saving[s].status, "")
    /\ sessions' = IF ~saving[s].written /\ saving[s].session # saving[s].loaded
                   THEN [sessions EXCEPT ![s] = saving[s].session]
                   ELSE sessions
    /\ saving' = [saving EXCEPT ![s] = IdleSave]
    /\ UNCHANGED <<cards, nextCard, users, memberships, boards, children, creds,
                   reqs, history, pending>>

\* the administrator's browser has passed; u1 is enrolled and logged out, or
\* logged in before the second factor was enabled from elsewhere, or logged in
\* with a TOTP setup in progress
InitSave ==
    \E u1 \in {"out", "unverified", "setup"} :
        InitAccounts(
            [u \in UserIds |->
                IF u = "u1" /\ u1 = "setup"
                THEN [enrolledUser(u) EXCEPT !.totpEnabled = FALSE, !.totpSecret = NoSecret,
                                             !.totpTempSecret = secretOf(u)]
                ELSE enrolledUser(u)],
            [s \in SessionIds |->
                IF s = "s1"
                THEN [userId |-> "admin", twoFactorPassed |-> TRUE,
                      boardId |-> DEFAULT_BOARD_ID]
                ELSE IF u1 = "out" THEN Anonymous
                ELSE [userId |-> "u1", twoFactorPassed |-> FALSE,
                      boardId |-> DEFAULT_BOARD_ID]],
            FALSE)

NextSave ==
    \/ \E s \in SessionIds, boardId \in BoardIds : SelectBoardHandle(s, boardId)
    \/ \E totp \in {NoCode, secretOf("u1")} : LoginHandle("s2", "u1", "p0", totp)
    \/ \E code \in {WrongCode, secretOf("u1")} : Enable2FAHandle("s2", code)
    \/ \E code \in {WrongCode, secretOf("u1")} : Verify2FAHandle("s2", code)
    \/ \E s \in SessionIds, defaultBoardId \in {<<>>, <<DEFAULT_BOARD_ID>>, <<"B1">>} :
           PatchProfileHandle(s, defaultBoardId)
    \/ \E s \in SessionIds, id \in BoardIds : DeleteBoardHandle(s, id)
    \/ \E s \in SessionIds : SessionSave(s)
    \/ \E s \in SessionIds : SendResponse(s)

\* the requests that write req.session, statement by statement, of two browsers
SpecSave == InitSave /\ [][NextSave]_vars

\* the handlers that assign to req.session
SessionOps == {"login", "enable", "verify", "select", "profile", "deleteBoard"}

\* C30: when login, 2fa/enable, 2fa/verify, boards/select, a profile update and
\* a board deletion send their response after having changed req.session, the
\* write of the session to the store has completed.
C30_SavedBeforeResponse ==
    [][\A s \in SessionIds :
          (/\ saving[s].pc = "respond" /\ saving'[s].pc = "idle"
           /\ saving[s].session # saving[s].loaded) =>
              /\ res'.op \in SessionOps /\ res'.session = s
              /\ saving[s].written
              /\ sessions' = sessions]_vars

\* the administrator deleted the board selected in their session and was
\* answered after the session without a board had been written
C30_Witness ==
    /\ res.op = "deleteBoard" /\ res.status = 200
    /\ saving[res.session].pc = "idle"
    /\ sessions[res.session].boardId = NoBoard
    /\ sessions[res.session].userId = "admin"

\* C32: /2fa/enable with no pending secret, or with a code that is not the code
\* of the pending secret, is answered 400 and leaves the users and the sessions
\* as they were; with the code of the pending secret it makes the pending secret
\* the confirmed one, clears the pending secret and sets totpEnabled; /2fa/setup
\* changes neither the confirmed secret nor totpEnabled.
C32_EnrollmentByPendingCode ==
    [][\A s \in {res'.session} \cap SessionIds :
          Authenticated(s) =>
              LET u == sessions[s].userId
              IN  /\ res'.op = "enable" =>
                         \A code \in {WrongCode} \cup Secrets :
                             Enable2FA(s, code) =>
                                 IF /\ users[u].totpTempSecret # NoSecret
                                    /\ code = users[u].totpTempSecret
                                 THEN /\ res'.status = 200
                                      /\ users'[u].totpSecret = users[u].totpTempSecret
                                      /\ users'[u].totpTempSecret = NoSecret
                                      /\ users'[u].totpEnabled
                                 ELSE /\ res'.status = 400
                                      /\ UNCHANGED <<users, sessions>>
                  /\ res'.op = "setup" =>
                         /\ users'[u].totpSecret = users[u].totpSecret
                         /\ users'[u].totpEnabled = users[u].totpEnabled]_vars

\* a code that is not the pending secret's was refused while a setup was in
\* progress, and the user is still not enrolled
C32_Witness ==
    /\ res.op = "enable" /\ res.status = 400 /\ res.error = "Invalid code"
    /\ users["u1"].totpTempSecret # NoSecret
    /\ ~users["u1"].totpEnabled
    /\ ~sessions[res.session].twoFactorPassed

NextLoginBoard ==
    \/ \E login \in {"admin", "u1"} : Login("s2", login, "p0", secretOf(login), FALSE)
    \/ Logout("s2")
    \/ \E s \in SessionIds, boardId \in BoardIds : SelectBoard(s, boardId)
    \/ \E id \in BoardIds, memberIds \in {<<>>, <<"u1">>} : UpdateBoard("s1", id, memberIds)
    \/ DeleteBoard("s1", "B1")

\* logins of the second browser between board selections, member-list updates
\* and a board deletion
SpecLoginBoard == InitUsers /\ [][NextLoginBoard]_vars

NextDefault ==
    \/ \E id \in BoardIds, memberIds \in {<<>>, <<"u1">>} : UpdateBoard("s1", id, memberIds)
    \/ DeleteBoard("s1", "B1")
    \/ \E defaultBoardId \in {<<DEFAULT_BOARD_ID>>, <<"B1">>} :
           PatchProfileHandle("s2", defaultBoardId)
    \/ SessionSave("s2")
    \/ SendResponse("s2")
    \/ \E role \in {<<"ADMIN">>, <<"MEMBER">>} : PatchUserFind("s1", "u1", role, <<>>)
    \/ PatchUserCheck("s1")
    \/ PatchUserTransaction("s1")
    \/ \E boardIds \in {<<"B1">>, <<DEFAULT_BOARD_ID, "B1">>} :
           SetUserBoards("s1", "u1", boardIds, "B1")
    \/ CreateUser("s1", "u2", "u2@local", "MEMBER", "p1")

\* the requests that change default boards, memberships and roles
SpecDefault == InitUsers /\ [][NextDefault]_vars

\* C35: after a successful login the session's board is the user's
\* defaultBoardId when that is not null, else the board of the user's earliest
\* membership row, else none, whatever board the session held before.
C35_LoginBoard ==
    [][(res'.op = "login" /\ res'.status = 200) =>
          \A s \in {res'.session} \cap SessionIds :
              LET u == sessions'[s].userId
              IN  sessions'[s].boardId =
                      IF users[u].defaultBoardId # NoBoard THEN users[u].defaultBoardId
                      ELSE EarliestOther(memberships, u, NoBoard)]_vars

\* u1, without a default board, logged in to a session that held the default
\* board and got the board of the only membership
C35_Witness ==
    /\ res.op = "login" /\ res.status = 200
    /\ sessions["s2"].userId = "u1"
    /\ users["u1"].defaultBoardId = NoBoard
    /\ sessions["s2"].boardId = "B1"

\* C36: a defaultBoardId of a user who is not an ADMIN is null or a board on
\* which the user has a membership row.
C36_DefaultIsAccessible ==
    \A u \in DOMAIN users :
        (users[u].role # "ADMIN" /\ users[u].defaultBoardId # NoBoard) =>
            hasMembership(users[u].defaultBoardId, u)

\* ------------------------------------------------------- the frame of a move

\* C37: a move of card c by a session on board B, with no request overlapping
\* it, changes nothing but position values of cards of B in c's source and
\* destination column, and c's column: no card's boardId or other field
\* changes, no card outside those two columns of B changes, and no card is
\* added, removed or duplicated
C37_MoveFrame ==
    [][res'.op = "move" =>
          \A s \in {res'.session} \cap SessionIds :
              LET c == res'.card
                  B == sessions[s].boardId
              IN  /\ DOMAIN cards' = DOMAIN cards
                  /\ nextCard' = nextCard
                  /\ \A i \in DOMAIN cards :
                         /\ cards'[i].boardId = cards[i].boardId
                         /\ cards'[i].authorId = cards[i].authorId
                         /\ cards'[i].assignee = cards[i].assignee
                         /\ i # c => cards'[i].column = cards[i].column
                         /\ cards'[i] # cards[i] =>
                                /\ c \in DOMAIN cards
                                /\ cards[i].boardId = B
                                /\ cards[c].boardId = B
                                /\ cards[i].column \in {cards[c].column, cards'[c].column}]_vars

\* a cross-column move has renumbered both columns of its board while the other
\* board holds a card
C37_Witness ==
    /\ res.op = "move" /\ res.status = 200 /\ res.notify = "moved" /\ res.writes >= 2
    /\ \E i \in DOMAIN cards : cards[i].boardId # cards[res.card].boardId

\* ------------------------------------------------------------ a failed move

\* request r has taken the step: its position in the handler has changed
Stepped(r) == reqs'[r].pc # reqs[r].pc

\* C38: a move that fails leaves the board unchanged: when the card is not found
\* under the session's board (404), or an update of the transaction fails
\* because a card of the fetched id lists was deleted meanwhile (500), no
\* position or column change is committed and no moved-notification is
\* dispatched; nor does any earlier step of the request write a card
C38_FailedMoveChangesNothing ==
    [][\A r \in ReqIds :
          (/\ Stepped(r)
           /\ reqs'[r].kind = "move"
           /\ ~(reqs'[r].pc = "done" /\ reqs'[r].status = 200)) =>
              /\ cards' = cards
              /\ reqs'[r].notify = "none"]_vars

\* a cross-column move has failed in its transaction: a card of its id lists
\* was deleted after the lists were fetched
C38_Witness ==
    \E r \in ReqIds :
        /\ reqs[r].kind = "move" /\ reqs[r].pc = "done" /\ reqs[r].status = 500
        /\ reqs[r].fromColumn # reqs[r].column
        /\ \E i \in 1..Len(reqs[r].fromIds) : reqs[r].fromIds[i] \notin DOMAIN cards

\* ---------------------------------------------------------- trusted devices

\* the rememberDevice flags: the random tokens are bounded, one device is issued
Remember == {r \in BOOLEAN : r => nextToken = 1}

NextDevice ==
    \/ \E s \in SessionIds, login \in {"admin", "u1@local"}, totp \in Codes,
          rememberDevice \in Remember :
           Login(s, login, "p0", totp, rememberDevice)
    \/ \E s \in SessionIds : Logout(s)
    \/ \E s \in SessionIds, code \in Codes \ {NoCode}, rememberDevice \in Remember :
           Verify2FA(s, code, rememberDevice)
    \/ Advance(DAYS * 12, DAYS * 24)

\* logins and /2fa/verify requests of two enrolled users from two browsers,
\* while the clock runs up to the expiry of a trusted device
SpecDevice == InitLogin /\ [][NextDevice]_vars

\* the TrustedDevice rows the step has created
Issued == {d \in trustedDevices' : \A e \in trustedDevices : e.tokenHash # d.tokenHash}

\* the code is the current code of user u's confirmed secret
Confirms(code, u) ==
    users[u].totpEnabled /\ users[u].totpSecret # NoSecret /\ code = users[u].totpSecret

\* C34: a trusted-device row is created only by a login or a /2fa/verify that
\* succeeds, was given a TOTP code that verifies against the user's confirmed
\* secret, and asked for rememberDevice; the row is the user's and expires 30
\* days later. A login without a code is let past the code prompt only by a
\* token of a row of the same user whose expiry has not passed.
C34_TrustedDevice ==
    [][/\ Issued # {} => (res'.op \in {"login", "verify"} /\ res'.status = 200)
       /\ \A s \in {res'.session} \cap SessionIds, totp \in Codes, rememberDevice \in BOOLEAN :
              /\ (\E login \in Logins, password \in Passwords :
                      Login(s, login, password, totp, rememberDevice)) =>
                     /\ \A d \in Issued :
                            /\ rememberDevice
                            /\ d.userId = sessions'[s].userId
                            /\ Confirms(totp, d.userId)
                            /\ d.expiresAt = now + DAYS * 24
                     /\ (res'.status = 200 /\ totp = NoCode
                           /\ users[sessions'[s].userId].totpEnabled) =>
                            \E d \in trustedDevices :
                                /\ d.userId = sessions'[s].userId
                                /\ d.tokenHash = sha256Hex(deviceCookies[s])
                                /\ now < d.expiresAt
              /\ (totp # NoCode /\ Verify2FA(s, totp, rememberDevice)) =>
                     \A d \in Issued :
                         /\ rememberDevice
                         /\ d.userId = sessions[s].userId
                         /\ Confirms(totp, d.userId)
                         /\ d.expiresAt = now + DAYS * 24]_vars

\* a browser holds the token of an expired trusted device of u1, and its login
\* without a code was refused
C34_Witness ==
    /\ res.op = "login" /\ res.status = 401 /\ res.error = "Two-factor required"
    /\ \E s \in {res.session} \cap SessionIds :
           \E d \in trustedDevices :
               /\ d.userId = "u1"
               /\ d.tokenHash = sha256Hex(deviceCookies[s])
               /\ d.expiresAt <= now

\* -------------------------------------- authorization by the stored state

NextRevoke ==
    \/ \E role \in {<<"ADMIN">>, <<"MEMBER">>} : PatchUserFind("s1", "u1", role, <<>>)
    \/ PatchUserCheck("s1")
    \/ PatchUserTransaction("s1")
    \/ DeleteUserFind("s1", "u1")
    \/ DeleteUserCount("s1")
    \/ DeleteUserCommit("s1")
    \/ UpdateBoard("s1", "B1", <<>>)
    \/ \E boardId \in BoardIds : SelectBoard("s2", boardId)
    \/ GetBoard("s2")
    \/ CreateCard("s2", ColumnIds[1])
    \/ CreateUser("s2", "u2", "u2@local", "MEMBER", "p1")
    \/ SetUserBoards("s2", "admin", <<"B1">>, "B1")

\* the administrator demotes, promotes and deletes u1 while the second
\* browser, whose session was saved before, keeps sending requests
SpecRevoke == InitUsers /\ [][NextRevoke]_vars

\* the requests behind requireAdmin(), and those behind the board-context gate
AdminOps == {"createUser", "patchUser", "deleteUser", "setUserBoards"}
GatedOps == {"board", "create"}

\* C39: every request is authorized by the stored state of its session's user
\* at the time of the request: a session of a deleted user is answered 401 on
\* every request; a session of a user who is not (or no longer) an ADMIN is
\* refused on the admin-only endpoints, selects only boards the user is a
\* member of, and passes the board-context gate only with a membership on the
\* session's board
C39_CurrentStateAuthorizes ==
    [][\A s \in {res'.session} \cap SessionIds :
          LET u == sessions[s].userId
          IN  /\ u \notin DOMAIN users => res'.status = 401
              /\ (u \in DOMAIN users /\ users[u].role # "ADMIN") =>
                     /\ res'.op \in AdminOps => res'.status = 403
                     /\ (res'.op = "select" /\ res'.status = 200) =>
                            hasMembership(sessions'[s].boardId, u)
                     /\ (res'.op \in GatedOps /\ res'.status \in {200, 201}) =>
                            hasMembership(sessions[s].boardId, u)]_vars

\* u1 was deleted while the session of the second browser stayed in the store,
\* and a request of that session was answered 401
C39_Witness ==
    /\ res.session = "s2" /\ res.status = 401
    /\ sessions["s2"].userId = "u1"
    /\ "u1" \notin DOMAIN users

\* ---------------------------------------------------------- notifications

NextMail ==
    \/ CreateCard("s1", ColumnIds[1])
    \/ \E id \in GateCards : AddParticipant("s1", id, "u1")
    \/ \E id \in GateCards : UpdateCard("s1", id, [assignee |-> <<>>])
    \/ \E id \in GateCards, toColumn \in Columns : MoveCard("s1", id, toColumn, 0)
    \/ \E id \in GateCards : CreateComment("s1", id, "b1")
    \/ \E id \in CommentIds : UpdateComment("s1", id, "b2")
    \/ \E id \in CommentIds : DeleteComment("s1", id)
    \/ \E id \in GateCards : CreateAttachment("s1", id)
    \/ \E id \in AttachmentIds : DeleteAttachment("s1", id)
    \/ \E enabled \in BOOLEAN : PutMailSettings("s1", enabled)
    \/ NotifyCardParticipants
    \/ \E ok \in BOOLEAN : SendMailSettles(ok)
    \/ CacheExpires

\* the administrator's requests on one card, its comment and its attachment,
\* mail switched on and off, and the mailer's steps between them
SpecMail == InitOwn /\ [][NextMail]_vars

NextCache ==
    \/ CreateCard("s1", ColumnIds[1])
    \/ \E id \in GateCards : AddParticipant("s1", id, "u1")
    \/ \E id \in GateCards : UpdateCard("s1", id, [assignee |-> <<>>])
    \/ \E id \in GateCards : CreateComment("s1", id, "b1")
    \/ \E enabled \in BOOLEAN, data \in MailTuples : PutMailSettingsBody("s1", enabled, data)
    \/ NotifyCardParticipants
    \/ \E ok \in BOOLEAN : SendMailSettles(ok)
    \/ CacheExpires

\* notifications of one card while the administrator changes the mail
\* configuration and the cached transporter ages
SpecCache == InitOwn /\ [][NextCache]_vars

\* the requests that dispatch a notification when they succeed
NotifyingOps == {"update", "move", "comment", "editComment", "deleteComment", "attach", "detach"}

\* C31: the notification never blocks or fails the request that dispatches it:
\* a card update, move, comment or attachment request ends only with its own
\* statuses whatever the mailer is doing; when it dispatches, its change is
\* committed and its success response is out in the same step, before the
\* mailer has moved; and no step of the mailer, whether the send succeeds,
\* fails, is skipped for want of a configuration or hangs, changes the
\* response or a table
C31_NotificationNeverBlocks ==
    [][/\ res'.op \in NotifyingOps => res'.status \in {200, 201, 400, 401, 403, 404}
       /\ (res' # res /\ res'.notify # "none") =>
              /\ res'.op \in NotifyingOps
              /\ res'.status \in {200, 201}
              /\ mailer' = mailer
       /\ mailer' # mailer =>
              UNCHANGED <<res, cards, participants, comments, attachments>>]_vars

\* a request has committed and answered with success while the send of an
\* earlier notification was still hanging
C31_Witness ==
    /\ res.notify # "none" /\ res.status \in {200, 201}
    /\ mailer.pc = "sending"
    /\ mailer.notified # res
    /\ mailer.notified.notify # "none"

\* C33: whenever sendEmail hands a message to a transporter, the transporter
\* and the sender are those of the effective mail configuration of that moment:
\* after a change of host, port, secure, user or from the next send uses a
\* transporter built from the new tuple
C33_TransporterFollowsConfig ==
    [][(mailer.pc = "idle" /\ mailer'.pc = "sending" /\ mailConfig # NoMailRow) =>
           mailer'.used = mailConfig]_vars

====
